---- MODULE Spec2Model ----
(***************************************************************************)
(* kubedog, package kube: generic resource dispatch (create / update /     *)
(* delete through the dynamic client) and the convergence pollers          *)
(* (ResourceShouldBe, ResourceShouldConvergeToSelector,                    *)
(* ResourceConditionShouldBe), together with the remote object store the   *)
(* dynamic client talks to.                                                *)
(*                                                                         *)
(* String values the code may inspect character by character (selectors,   *)
(* field values, condition statuses, names) are sequences of one-character *)
(* strings; strings it only compares for equality (operation and state     *)
(* tokens, map keys, errors) are plain strings.                            *)
(***************************************************************************)
EXTENDS Integers, Sequences, FiniteSets, TLC

VARIABLES
    remote,     \* the remote object store: a function from the keys of the live objects to the objects
    client,     \* the ClientSet: the three handles (TRUE = non-nil) and the waiter settings
    last,       \* the entry point called last, with its arguments and its returned error
    turn,       \* flips at every dispatch: tells a repeated dispatch from no dispatch
    before,     \* the remote object store when the last dispatch was called
    calls,      \* the remote calls the last dispatch issued, in order, each with the remote's answer
    pc,         \* "idle", or "polling" while a poller is between two attempts
    poll        \* the running (or last) poll: counter, fetches made, sleeps made, last fetch answer

vars == <<remote, client, last, turn, before, calls, pc, poll>>

----------------------------------------------------------------------------
(* Bounds of the model.                                                    *)

\* largest configured WaiterTries the sessions are started with
MaxTries == 3
\* largest resource version the remote hands out
MaxRV == 2

\* the longest interval a session configures, in seconds
MaxInterval == 2

----------------------------------------------------------------------------
(* Characters and strings.                                                 *)

LowerLetters == <<"a","b","c","d","e","f","g","h","i","j","k","l","m",
                  "n","o","p","q","r","s","t","u","v","w","x","y","z">>
UpperLetters == <<"A","B","C","D","E","F","G","H","I","J","K","L","M",
                  "N","O","P","Q","R","S","T","U","V","W","X","Y","Z">>

IndexIn(c, letters) ==
    IF \E i \in DOMAIN letters : letters[i] = c
    THEN CHOOSE i \in DOMAIN letters : letters[i] = c
    ELSE 0

ToUpper(c) == IF IndexIn(c, LowerLetters) # 0 THEN UpperLetters[IndexIn(c, LowerLetters)] ELSE c
ToLower(c) == IF IndexIn(c, UpperLetters) # 0 THEN LowerLetters[IndexIn(c, UpperLetters)] ELSE c

\* mutant: the strings are compared as they are
EqualFold_Exact(s, t) == s = t

\* strings.EqualFold on ASCII strings
EqualFold(s, t) ==
    /\ Len(s) = Len(t)
    /\ \A i \in 1..Len(s) : ToLower(s[i]) = ToLower(t[i])

\* strings.Split on a one-character separator
RECURSIVE Split(_, _)
Split(s, sep) ==
    IF \A i \in 1..Len(s) : s[i] # sep THEN <<s>>
    ELSE LET i == CHOOSE i \in 1..Len(s) : s[i] = sep /\ \A j \in 1..(i - 1) : s[j] # sep
         IN <<SubSeq(s, 1, i - 1)>> \o Split(SubSeq(s, i + 1, Len(s)), sep)

\* util.DeleteEmpty: the slice without its empty strings
DeleteEmpty(s) == SelectSeq(s, LAMBDA x : x # <<>>)

\* cases.Title(language.English).String: every word starts with an upper-case
\* letter and goes on in lower case
Title(s) ==
    [i \in 1..Len(s) |->
        IF i = 1 \/ s[i - 1] = " " THEN ToUpper(s[i]) ELSE ToLower(s[i])]

\* a path segment as the map key it names
RECURSIVE MapKey(_)
MapKey(chars) == IF chars = <<>> THEN "" ELSE Head(chars) \o MapKey(Tail(chars))

----------------------------------------------------------------------------
(* Program constants.                                                      *)

operationCreate == "create"
operationSubmit == "submit"
operationUpdate == "update"
operationDelete == "delete"

stateCreated == "created"
stateDeleted == "deleted"

defaultWaiterTries == 40

\* time.Second * 30, in seconds
defaultWaiterInterval == 30

\* the errors the remote answers with, and the ones the package makes itself
ErrNil           == "nil"
ErrAlreadyExists == "AlreadyExists"
ErrNotFound      == "NotFound"
ErrForbidden     == "Forbidden"
ErrBadRequest    == "BadRequest"
ErrConflict      == "Conflict"
ErrUnsupported   == "unsupported operation"
ErrTimeout       == "waiter timed out"
ErrFormat        == "selector format"
ErrValidation    == "interface is nil"
ErrPanic         == "panic"

----------------------------------------------------------------------------
(* Documents: the generic nested key-value tree of                         *)
(* unstructured.Unstructured.  A value is tagged with its dynamic type.    *)

StrV(s)  == [t |-> "string", s |-> s]
IntV(n)  == [t |-> "int64",  n |-> n]
MapV(m)  == [t |-> "map",    m |-> m]
ListV(l) == [t |-> "slice",  l |-> l]
NilV     == [t |-> "nil"]

EmptyMap == [k \in {} |-> NilV]

\* the keys of a map are plain strings
kMetadata        == "metadata"
kName            == "name"
kNamespace       == "namespace"
kResourceVersion == "resourceVersion"
kSpec            == "spec"
kReplicas        == "replicas"
kStatus          == "status"
kConditions      == "conditions"
kType            == "type"

\* unstructured.NestedFieldNoCopy: walk the path; a missing key is "not found"
\* without error, a non-map on the way is "not found" with an error
RECURSIVE NestedFieldNoCopy(_, _)
NestedFieldNoCopy(val, fields) ==
    IF fields = <<>> THEN [val |-> val, found |-> TRUE, err |-> FALSE]
    ELSE IF val.t = "nil" THEN [val |-> NilV, found |-> FALSE, err |-> FALSE]
    ELSE IF val.t # "map" THEN [val |-> NilV, found |-> FALSE, err |-> TRUE]
    ELSE IF Head(fields) \notin DOMAIN val.m THEN [val |-> NilV, found |-> FALSE, err |-> FALSE]
    ELSE NestedFieldNoCopy(val.m[Head(fields)], Tail(fields))

\* unstructured.NestedString: found only when the leaf is a string
NestedString(obj, fields) ==
    LET r == NestedFieldNoCopy(obj, fields) IN
    IF ~r.found \/ r.err THEN [val |-> <<>>, found |-> r.found, err |-> r.err]
    ELSE IF r.val.t # "string" THEN [val |-> <<>>, found |-> FALSE, err |-> TRUE]
    ELSE [val |-> r.val.s, found |-> TRUE, err |-> FALSE]

\* unstructured.NestedSlice: found only when the leaf is a slice
NestedSlice(obj, fields) ==
    LET r == NestedFieldNoCopy(obj, fields) IN
    IF ~r.found \/ r.err THEN [val |-> <<>>, found |-> r.found, err |-> r.err]
    ELSE IF r.val.t # "slice" THEN [val |-> <<>>, found |-> FALSE, err |-> TRUE]
    ELSE [val |-> r.val.l, found |-> TRUE, err |-> FALSE]

\* the accessors of unstructured.Unstructured: "" when the field is missing
GetNestedString(obj, fields) ==
    LET r == NestedString(obj, fields) IN
    IF ~r.found \/ r.err THEN <<>> ELSE r.val

GetName(obj)            == GetNestedString(obj, <<kMetadata, kName>>)
GetNamespace(obj)       == GetNestedString(obj, <<kMetadata, kNamespace>>)
GetResourceVersion(obj) == GetNestedString(obj, <<kMetadata, kResourceVersion>>)

\* the metadata map of an object, empty when the object has none
MetadataOf(obj) ==
    IF kMetadata \in DOMAIN obj.m /\ obj.m[kMetadata].t = "map"
    THEN obj.m[kMetadata].m ELSE EmptyMap

\* a setter of unstructured.Unstructured: the empty string removes the field
SetMetaString(obj, key, s) ==
    LET m  == MetadataOf(obj)
        m2 == IF s = <<>>
              THEN [k \in DOMAIN m \ {key} |-> m[k]]
              ELSE [k \in DOMAIN m \cup {key} |-> IF k = key THEN StrV(s) ELSE m[k]]
    IN MapV([k \in DOMAIN obj.m \cup {kMetadata} |->
                IF k = kMetadata THEN MapV(m2) ELSE obj.m[k]])

SetResourceVersion(obj, rv) == SetMetaString(obj, kResourceVersion, rv)
SetNamespace(obj, ns)       == SetMetaString(obj, kNamespace, ns)

\* a document with a name, a namespace ("" = none) and its spec and status subtrees
Document(name, ns, spec, status) ==
    SetNamespace(
        MapV(kMetadata :> MapV(kName :> StrV(name)) @@ kSpec :> spec @@ kStatus :> status),
        ns)

----------------------------------------------------------------------------
(* The remote system behind the dynamic client: an object store keyed by   *)
(* resource, namespace and name.  Every request may also be refused for a  *)
(* reason of the remote's own (fault), e.g. a permission denial.           *)

Digits == <<"1","2","3","4","5","6","7","8","9">>

\* the version token the remote gives an object it stores: "1" for a new one,
\* the next one on every update
NextRV(rv) ==
    IF rv = <<>> THEN <<Digits[1]>>
    ELSE <<Digits[IndexIn(rv[1], Digits) + 1]>>

RVNumber(rv) == IF rv = <<>> THEN 0 ELSE IndexIn(rv[1], Digits)

Key(gvr, ns, name) == <<gvr, ns, name>>

Answer(err, obj, store) == [err |-> err, obj |-> obj, store |-> store]

RemoteGet(store, gvr, ns, name, fault) ==
    LET k == Key(gvr, ns, name) IN
    IF fault # ErrNil THEN Answer(fault, NilV, store)
    ELSE IF k \notin DOMAIN store THEN Answer(ErrNotFound, NilV, store)
    ELSE Answer(ErrNil, store[k], store)

RemoteCreate(store, gvr, ns, obj, fault) ==
    LET k == Key(gvr, ns, GetName(obj)) IN
    IF fault # ErrNil THEN Answer(fault, NilV, store)
    ELSE IF GetNamespace(obj) # <<>> /\ GetNamespace(obj) # ns
        THEN Answer(ErrBadRequest, NilV, store)
    ELSE IF k \in DOMAIN store THEN Answer(ErrAlreadyExists, NilV, store)
    ELSE LET stored == SetResourceVersion(SetNamespace(obj, ns), NextRV(<<>>)) IN
         Answer(ErrNil, stored, (k :> stored) @@ store)

RemoteUpdate(store, gvr, ns, obj, fault) ==
    LET k == Key(gvr, ns, GetName(obj)) IN
    IF fault # ErrNil THEN Answer(fault, NilV, store)
    ELSE IF GetNamespace(obj) # <<>> /\ GetNamespace(obj) # ns
        THEN Answer(ErrBadRequest, NilV, store)
    ELSE IF k \notin DOMAIN store THEN Answer(ErrNotFound, NilV, store)
    ELSE IF GetResourceVersion(obj) # <<>>
            /\ GetResourceVersion(obj) # GetResourceVersion(store[k])
        THEN Answer(ErrConflict, NilV, store)
    ELSE LET stored == SetResourceVersion(SetNamespace(obj, ns),
                                          NextRV(GetResourceVersion(store[k]))) IN
         Answer(ErrNil, stored, [store EXCEPT ![k] = stored])

RemoteDelete(store, gvr, ns, name, fault) ==
    LET k == Key(gvr, ns, name) IN
    IF fault # ErrNil THEN Answer(fault, NilV, store)
    ELSE IF k \notin DOMAIN store THEN Answer(ErrNotFound, NilV, store)
    ELSE Answer(ErrNil, NilV, [x \in DOMAIN store \ {k} |-> store[x]])

\* one entry of the log of remote calls: the request and the remote's answer
Call(verb, gvr, ns, name, rv, err) ==
    [verb |-> verb, gvr |-> gvr, ns |-> ns, name |-> name, rv |-> rv, err |-> err]

----------------------------------------------------------------------------
(* The Operation Dispatcher.                                               *)

\* mutant: the namespace embedded in the document wins over the override
DispatchNamespace_EmbeddedFirst(ns, resource) ==
    IF GetNamespace(resource) # <<>> THEN GetNamespace(resource) ELSE ns

\* the namespace a dispatch addresses
DispatchNamespace(ns, resource) ==
    IF ns = <<>> THEN GetNamespace(resource) ELSE ns

\* mutant: already-exists is returned like any other error
CreateOutcome_NoAbsorb(err) == err

\* what create returns for the remote's answer: already-exists is absorbed
CreateOutcome(err) == IF err = ErrAlreadyExists THEN ErrNil ELSE err

\* mutant: not-found is returned like any other error
DeleteOutcome_NoAbsorb(err) == err

\* mutant: every error of the delete request is absorbed
DeleteOutcome_AbsorbAll(err) == ErrNil

\* what delete returns for the remote's answer: not-found is absorbed
DeleteOutcome(err) == IF err = ErrNotFound THEN ErrNil ELSE err

Outcome(err, log, store, resource) ==
    [err |-> err, calls |-> log, store |-> store, resource |-> resource]

\* mutant: the create goes to the namespace the document embeds
DispatchCreate_EmbeddedNamespace(store, gvr, ns, resource, f1) ==
    LET a == RemoteCreate(store, gvr, GetNamespace(resource), resource, f1) IN
    Outcome(CreateOutcome(a.err),
            <<Call("create", gvr, GetNamespace(resource), GetName(resource),
                   GetResourceVersion(resource), a.err)>>,
            a.store, resource)

\* mutant: the override is written into the document before the create
DispatchCreate_OverrideDocument(store, gvr, ns, resource, f1) ==
    LET a == RemoteCreate(store, gvr, ns, SetNamespace(resource, ns), f1) IN
    Outcome(CreateOutcome(a.err),
            <<Call("create", gvr, ns, GetName(resource), GetResourceVersion(resource), a.err)>>,
            a.store, resource)

\* mutant: the document becomes the object the remote stored
DispatchCreate_TakesStored(store, gvr, ns, resource, f1) ==
    LET a == RemoteCreate(store, gvr, ns, resource, f1) IN
    Outcome(CreateOutcome(a.err),
            <<Call("create", gvr, ns, GetName(resource), GetResourceVersion(resource), a.err)>>,
            a.store, IF a.err = ErrNil THEN a.obj ELSE resource)

DispatchCreate(store, gvr, ns, resource, f1) ==
    LET a == RemoteCreate(store, gvr, ns, resource, f1) IN
    Outcome(CreateOutcome(a.err),
            <<Call("create", gvr, ns, GetName(resource), GetResourceVersion(resource), a.err)>>,
            a.store, resource)

\* mutant: an update of a missing resource creates it
DispatchUpdate_Upsert(store, gvr, ns, resource, f1, f2) ==
    LET g == RemoteGet(store, gvr, ns, GetName(resource), f1)
        gcall == Call("get", gvr, ns, GetName(resource), <<>>, g.err)
        c == RemoteCreate(store, gvr, ns, resource, f2)
        u == RemoteUpdate(store, gvr, ns,
                          SetResourceVersion(resource, GetResourceVersion(g.obj)), f2)
    IN
    IF g.err = ErrNotFound
    THEN Outcome(c.err, <<gcall, Call("create", gvr, ns, GetName(resource), <<>>, c.err)>>,
                 c.store, resource)
    ELSE IF g.err # ErrNil THEN Outcome(g.err, <<gcall>>, store, resource)
    ELSE Outcome(u.err,
                 <<gcall, Call("update", gvr, ns, GetName(resource),
                               GetResourceVersion(g.obj), u.err)>>,
                 u.store, SetResourceVersion(resource, GetResourceVersion(g.obj)))

\* mutant: the object fetched is submitted, not the document of the file
DispatchUpdate_SubmitsLive(store, gvr, ns, resource, f1, f2) ==
    LET g == RemoteGet(store, gvr, ns, GetName(resource), f1)
        gcall == Call("get", gvr, ns, GetName(resource), <<>>, g.err)
    IN
    IF g.err # ErrNil THEN Outcome(g.err, <<gcall>>, store, resource)
    ELSE LET u == RemoteUpdate(g.store, gvr, ns, g.obj, f2)
         IN Outcome(u.err,
                    <<gcall, Call("update", gvr, ns, GetName(g.obj),
                                  GetResourceVersion(g.obj), u.err)>>,
                    u.store, g.obj)

\* mutant: the document is submitted with the token it came with
DispatchUpdate_FileToken(store, gvr, ns, resource, f1, f2) ==
    LET g == RemoteGet(store, gvr, ns, GetName(resource), f1)
        gcall == Call("get", gvr, ns, GetName(resource), <<>>, g.err)
    IN
    IF g.err # ErrNil THEN Outcome(g.err, <<gcall>>, store, resource)
    ELSE LET u == RemoteUpdate(g.store, gvr, ns, resource, f2)
         IN Outcome(u.err,
                    <<gcall, Call("update", gvr, ns, GetName(resource),
                                  GetResourceVersion(resource), u.err)>>,
                    u.store, resource)

DispatchUpdate(store, gvr, ns, resource, f1, f2) ==
    LET g == RemoteGet(store, gvr, ns, GetName(resource), f1)
        gcall == Call("get", gvr, ns, GetName(resource), <<>>, g.err)
    IN
    IF g.err # ErrNil THEN Outcome(g.err, <<gcall>>, store, resource)
    ELSE LET stamped == SetResourceVersion(resource, GetResourceVersion(g.obj))
             u == RemoteUpdate(g.store, gvr, ns, stamped, f2)
         IN Outcome(u.err,
                    <<gcall, Call("update", gvr, ns, GetName(stamped),
                                  GetResourceVersion(stamped), u.err)>>,
                    u.store, stamped)

\* mutant: a delete the remote refuses is issued a second time
DispatchDelete_Retry(store, gvr, ns, resource, f1) ==
    LET a == RemoteDelete(store, gvr, ns, GetName(resource), f1)
        b == RemoteDelete(a.store, gvr, ns, GetName(resource), ErrNil)
        first == Call("delete", gvr, ns, GetName(resource), <<>>, a.err)
    IN
    IF a.err \in {ErrNil, ErrNotFound}
    THEN Outcome(DeleteOutcome(a.err), <<first>>, a.store, resource)
    ELSE Outcome(DeleteOutcome(b.err),
                 <<first, Call("delete", gvr, ns, GetName(resource), <<>>, b.err)>>,
                 b.store, resource)

DispatchDelete(store, gvr, ns, resource, f1) ==
    LET a == RemoteDelete(store, gvr, ns, GetName(resource), f1) IN
    Outcome(DeleteOutcome(a.err),
            <<Call("delete", gvr, ns, GetName(resource), <<>>, a.err)>>,
            a.store, resource)

\* mutant: the switch has no default branch of its own, an unknown token is
\* handled as create
OperationSwitch_DefaultCreate(store, operation, ns0, res, f1, f2) ==
    LET ns == DispatchNamespace(ns0, res.resource) IN
    CASE operation = operationUpdate ->
            DispatchUpdate(store, res.gvr, ns, res.resource, f1, f2)
      [] operation = operationDelete ->
            DispatchDelete(store, res.gvr, ns, res.resource, f1)
      [] OTHER -> DispatchCreate(store, res.gvr, ns, res.resource, f1)

\* the switch over the operation token; res is a util.K8sUnstructuredResource,
\* f1 and f2 the faults of the remote on the first and second request
OperationSwitch(store, operation, ns0, res, f1, f2) ==
    LET gvr == res.gvr
        resource == res.resource
        ns == DispatchNamespace(ns0, resource)
    IN
    CASE operation \in {operationCreate, operationSubmit} ->
            DispatchCreate(store, gvr, ns, resource, f1)
      [] operation = operationUpdate ->
            DispatchUpdate(store, gvr, ns, resource, f1, f2)
      [] operation = operationDelete ->
            DispatchDelete(store, gvr, ns, resource, f1)
      [] OTHER -> Outcome(ErrUnsupported, <<>>, store, resource)

\* ClientSet.unstructuredResourceOperation (package kube): no validation; a
\* request through a nil DynamicInterface is a nil dereference
unstructuredResourceOperation(kc, store, operation, ns0, res, f1, f2) ==
    IF ~kc.DynamicInterface
       /\ operation \in {operationCreate, operationSubmit, operationUpdate, operationDelete}
    THEN Outcome(ErrPanic, <<>>, store, res.resource)
    ELSE OperationSwitch(store, operation, ns0, res, f1, f2)

\* validateDynamicClient (package unstructured)
validateDynamicClient(dynamicClient) == IF ~dynamicClient THEN ErrValidation ELSE ErrNil

\* unstructuredResourceOperation (package unstructured): the dynamic client is
\* validated before the switch
pkgUnstructuredResourceOperation(dynamicClient, store, operation, ns0, res, f1, f2) ==
    IF validateDynamicClient(dynamicClient) # ErrNil
    THEN Outcome(validateDynamicClient(dynamicClient), <<>>, store, res.resource)
    ELSE OperationSwitch(store, operation, ns0, res, f1, f2)

----------------------------------------------------------------------------
(* The Client Context.                                                     *)

\* Client.getWaiterTries
getWaiterTries(kc) ==
    IF kc.WaiterTries > 0 THEN kc.WaiterTries ELSE defaultWaiterTries

\* mutant: the configured interval is used as it is
getWaiterInterval_NoDefault(kc) == kc.WaiterInterval

\* Client.getWaiterInterval, in seconds
getWaiterInterval(kc) ==
    IF kc.WaiterInterval > 0 THEN kc.WaiterInterval ELSE defaultWaiterInterval

\* Client.Validate
Validate(kc) ==
    IF ~kc.DynamicInterface \/ ~kc.DiscoveryInterface \/ ~kc.KubeInterface
    THEN ErrValidation ELSE ErrNil

----------------------------------------------------------------------------
(* The resource files of a session and what they resolve to.               *)

someResource == "someResource"

resName == <<"r">>
nsNone  == <<>>
nsA     == <<"a">>
nsB     == <<"b">>

\* the namespace overrides a caller passes: none, or one that differs from the
\* namespace embedded in the files that embed one (nsA)
Namespaces == {nsNone, nsB}

NoStatus == MapV(EmptyMap)
SpecWith(replicas) == MapV(kReplicas :> replicas)

\* resource-without-namespace.yaml and resource-with-namespace.yaml
ResourceFiles == {"noNs", "withNs"}

\* the documents the files hold
\* resource-without-namespace-update.yaml and resource-with-namespace-update.yaml
UpdateFiles == {"noNsUpdate", "withNsUpdate"}

\* a file written from a live object: its document carries a version token
StaleFiles == {"noNsStale"}

FileDocuments ==
    [file \in ResourceFiles \cup UpdateFiles \cup StaleFiles |->
        CASE file = "noNs"   -> Document(resName, nsNone, SpecWith(StrV(<<"3">>)), NoStatus)
          [] file = "withNs" -> Document(resName, nsA, SpecWith(StrV(<<"3">>)), NoStatus)
          [] file = "noNsUpdate" ->
                Document(resName, nsNone, SpecWith(StrV(<<"4">>)), NoStatus)
          [] file = "noNsStale" ->
                SetResourceVersion(
                    Document(resName, nsNone, SpecWith(StrV(<<"4">>)), NoStatus),
                    <<"9">>)
          [] file = "withNsUpdate" ->
                Document(resName, nsA, SpecWith(StrV(<<"4">>)), NoStatus)]

\* files whose resolution fails: one that does not exist, one whose document is
\* malformed, one whose kind discovery does not know
UnresolvedFiles == {"missing", "malformed", "unknownKind"}

ErrNoFile      == "no such file or directory"
ErrMalformed   == "error converting YAML to JSON"
ErrUnknownKind == "no matches for kind"

\* the error util.GetResourceFromYaml and util.GetMultipleResourcesFromYaml
\* answer with
ResolveError(file) ==
    CASE file = "missing"     -> ErrNoFile
      [] file = "malformed"   -> ErrMalformed
      [] file = "unknownKind" -> ErrUnknownKind
      [] OTHER                -> ErrNil

\* K8sUnstructuredResource{}: what comes with the error
ZeroResource == [gvr |-> "", resource |-> MapV(EmptyMap)]

\* util.GetResourceFromYaml: the GVR and the decoded document
GetResourceFromYaml(file) ==
    IF file \in UnresolvedFiles THEN ZeroResource
    ELSE [gvr |-> someResource, resource |-> FileDocuments[file]]

\* mutant: the error of the resolution is not looked at
ResolutionError_Ignored(file) == ErrNil

\* if err != nil { return err } after the resolution
ResolutionError(file) == ResolveError(file)

\* Validate, then the resolution: the error an entry point returns before it
\* makes any call
EntryError(kc, file) ==
    IF Validate(kc) # ErrNil THEN Validate(kc) ELSE ResolutionError(file)

\* the faults the remote may answer a request with, by its own choice
Faults == {ErrNil, ErrForbidden}
UpdateFaults == {ErrNil, ErrForbidden, ErrConflict}

\* the operation tokens a caller may pass: the four supported ones and others
OperationTokens == {operationCreate, operationSubmit, operationUpdate, operationDelete,
                    "patch", "Create"}

\* the state tokens a caller may pass to ResourceShouldBe
StateTokens == {stateCreated, stateDeleted, "ready"}

----------------------------------------------------------------------------
(* State.                                                                  *)

NoCall == [fn |-> "none", operation |-> "", ns |-> nsNone, file |-> "", arg |-> <<>>,
           err |-> ErrNil, resource |-> NilV]

\* counter is the loop's counter; the rest observes the loop: the fetches and
\* sleeps made, the answer to the last fetch, and at how many fetches the remote
\* showed what the caller waits for
NoPoll == [counter |-> 0, fetches |-> 0, sleeps |-> 0, waited |-> 0, observed |-> 0,
           answer |-> ErrNil]

EmptyStore == [k \in {} |-> NilV]

\* a ClientSet with its three handles set and the waiter settings left unset
NewClient == [DynamicInterface |-> TRUE, DiscoveryInterface |-> TRUE,
              KubeInterface |-> TRUE, WaiterTries |-> 0, WaiterInterval |-> 0]

Idle ==
    /\ last = NoCall
    /\ turn = 0
    /\ before = EmptyStore
    /\ calls = <<>>
    /\ pc = "idle"
    /\ poll = NoPoll

\* a session against an empty remote system
Init ==
    /\ remote = EmptyStore
    /\ client = NewClient
    /\ Idle

\* a session whose dynamic client may not have been set
InitAnyClient ==
    /\ remote = EmptyStore
    /\ client \in {NewClient, [NewClient EXCEPT !.DynamicInterface = FALSE]}
    /\ Idle

\* the remote never hands out a version token beyond MaxRV
WithinRV(store) == \A k \in DOMAIN store : RVNumber(GetResourceVersion(store[k])) <= MaxRV

----------------------------------------------------------------------------
(* Dispatch.                                                               *)

\* the call returns: its outcome o becomes the state
Returned(fn, operation, ns, file, o) ==
    /\ WithinRV(o.store)
    /\ remote' = o.store
    /\ calls' = o.calls
    /\ last' = [fn |-> fn, operation |-> operation, ns |-> ns, file |-> file,
                arg |-> <<>>, err |-> o.err, resource |-> o.resource]
    /\ turn' = 1 - turn
    /\ before' = remote
    /\ UNCHANGED <<client, pc, poll>>

\* a direct call of ClientSet.unstructuredResourceOperation on a resolved resource
Dispatch ==
    /\ pc = "idle"
    /\ \E operation \in OperationTokens, ns \in Namespaces, file \in ResourceFiles,
          f1 \in Faults :
        \E f2 \in IF operation = operationUpdate THEN UpdateFaults ELSE {ErrNil} :
        \E o \in {unstructuredResourceOperation(client, remote, operation, ns,
                                                GetResourceFromYaml(file), f1, f2)} :
            Returned("ClientSet.unstructuredResourceOperation", operation, ns, file, o)

\* a call of unstructuredResourceOperation of package unstructured
DispatchUnstructured ==
    /\ pc = "idle"
    /\ \E operation \in OperationTokens, ns \in Namespaces, file \in ResourceFiles,
          f1 \in Faults :
        \E f2 \in IF operation = operationUpdate THEN UpdateFaults ELSE {ErrNil} :
        \E o \in {pkgUnstructuredResourceOperation(client.DynamicInterface, remote,
                        operation, ns, GetResourceFromYaml(file), f1, f2)} :
            Returned("unstructured.unstructuredResourceOperation", operation, ns, file, o)

\* the operation tokens of the create / update / delete sequences
LifecycleOperationTokens == {operationCreate, operationUpdate, operationDelete}

\* a direct call of ClientSet.unstructuredResourceOperation on a resource file
\* or on its update file
DispatchDocument ==
    /\ pc = "idle"
    /\ \E operation \in LifecycleOperationTokens, ns \in Namespaces,
          file \in ResourceFiles \cup UpdateFiles, f1 \in Faults :
        \E o \in {unstructuredResourceOperation(client, remote, operation, ns,
                                                GetResourceFromYaml(file), f1, ErrNil)} :
            Returned("ClientSet.unstructuredResourceOperation", operation, ns, file, o)

NextLifecycle ==
    \/ DispatchDocument

\* create, update and delete of the resource files and their update files
SpecLifecycle == Init /\ [][NextLifecycle]_vars

Next ==
    \/ Dispatch

Spec == Init /\ [][Next]_vars

\* an update with a file whose document carries a version token of its own
DispatchStaleUpdate ==
    /\ pc = "idle"
    /\ \E ns \in Namespaces, file \in StaleFiles, f1 \in Faults, f2 \in UpdateFaults :
        \E o \in {unstructuredResourceOperation(client, remote, operationUpdate, ns,
                                                GetResourceFromYaml(file), f1, f2)} :
            Returned("ClientSet.unstructuredResourceOperation", operationUpdate, ns,
                     file, o)

NextStamp ==
    \/ Dispatch
    \/ DispatchStaleUpdate

\* dispatches of the resource files and updates with a file that carries a token
SpecStamp == Init /\ [][NextStamp]_vars

NextBoth ==
    \/ Dispatch
    \/ DispatchUnstructured

\* both dispatch functions, with the dynamic client set or not
SpecBoth == InitAnyClient /\ [][NextBoth]_vars

----------------------------------------------------------------------------
(* The Convergence Poller.                                                 *)

\* sessions whose waiter settings were set by the caller (0 and below: unset)
Sessions == {[NewClient EXCEPT !.WaiterTries = n] : n \in -1..MaxTries}

\* a session against a remote system that holds the file's resource or not
InitPoll ==
    /\ remote \in {EmptyStore} \cup
            {RemoteCreate(EmptyStore, someResource, GetNamespace(FileDocuments[f]),
                          FileDocuments[f], ErrNil).store : f \in ResourceFiles}
    /\ client \in Sessions
    /\ Idle

\* mutant: the budget is checked one turn late
BudgetExhausted_OffByOne(counter, kc) == counter > getWaiterTries(kc)

\* the budget check that opens every turn of a poller's loop
BudgetExhausted(counter, kc) == counter >= getWaiterTries(kc)

\* mutant: every error of the fetch is taken for not-found
IsNotFound_AnyError(err) == err # ErrNil

\* kerrors.IsNotFound on the error of a fetch
IsNotFound(err) == err = ErrNotFound

\* mutant: a state other than the two known ones counts as reached
StateReached_DefaultCase(state, exists) ==
    \/ state = stateDeleted /\ ~exists
    \/ state = stateCreated /\ exists
    \/ state \notin {stateDeleted, stateCreated}

\* mutant: the two target states are mixed up
StateReached_Swapped(state, exists) ==
    \/ state = stateDeleted /\ exists
    \/ state = stateCreated /\ ~exists

\* the switch of ResourceShouldBe on the outcome of a fetch
StateReached(state, exists) ==
    \/ state = stateDeleted /\ ~exists
    \/ state = stateCreated /\ exists

\* a poller was called: what it does before its loop; err is the error of its
\* argument checks, and the file is resolved only when they pass
PollCalled(fn, file, arg, err) ==
    /\ last' = [fn |-> fn, operation |-> "", ns |-> nsNone, file |-> file, arg |-> arg,
                err |-> IF err # ErrNil THEN err ELSE "pending",
                resource |-> IF err # ErrNil THEN NilV
                             ELSE GetResourceFromYaml(file).resource]
    /\ pc' = IF err # ErrNil THEN "idle" ELSE "polling"
    /\ poll' = NoPoll
    /\ UNCHANGED <<remote, client, turn, before, calls>>

\* the poller returns err
PollReturns(err, p) ==
    /\ last' = [last EXCEPT !.err = err]
    /\ pc' = "idle"
    /\ poll' = p

\* the poller counts the turn and sleeps the interval
PollSleeps(p) ==
    /\ poll' = [p EXCEPT !.counter = @ + 1, !.sleeps = @ + 1,
                         !.waited = @ + getWaiterInterval(client)]
    /\ UNCHANGED <<last, pc>>

\* mutant: the fetch is made in the namespace an operation was given before
PollFetch_OtherNamespace(file, fault) ==
    RemoteGet(remote, GetResourceFromYaml(file).gvr, nsB,
              GetName(GetResourceFromYaml(file).resource), fault)

\* the fetch every poller makes: the resource of the file, in the namespace the
\* document embeds
PollFetch(file, fault) ==
    RemoteGet(remote, GetResourceFromYaml(file).gvr,
              GetNamespace(GetResourceFromYaml(file).resource),
              GetName(GetResourceFromYaml(file).resource), fault)

ResourceShouldBeCalled(files) ==
    /\ pc = "idle"
    /\ \E file \in files, state \in StateTokens :
            PollCalled("ResourceShouldBe", file, state, EntryError(client, file))

ResourceShouldBeStart == ResourceShouldBeCalled(ResourceFiles)

\* one turn of the loop of ClientSet.ResourceShouldBe: the budget check, the fetch,
\* the switch on the state and, when it is not reached, the counter and the sleep
ResourceShouldBeAttempt ==
    /\ pc = "polling"
    /\ last.fn = "ResourceShouldBe"
    /\ IF BudgetExhausted(poll.counter, client)
       THEN PollReturns(ErrTimeout, poll)
       ELSE \E fault \in Faults :
            \E g \in {PollFetch(last.file, fault)} :
            LET seen == \/ last.arg = "deleted" /\ g.err = "NotFound"
                        \/ last.arg = "created" /\ g.err = "nil"
                fetched == [poll EXCEPT !.fetches = @ + 1, !.answer = g.err,
                                        !.observed = @ + (IF seen THEN 1 ELSE 0)]
            IN
            IF g.err # ErrNil /\ ~IsNotFound(g.err)
            THEN PollReturns(g.err, fetched)
            ELSE IF StateReached(last.arg, g.err = ErrNil)
            THEN PollReturns(ErrNil, fetched)
            ELSE PollSleeps(fetched)
    /\ UNCHANGED <<remote, client, turn, before, calls>>

\* while a poller sleeps the remote system goes on: the polled resource appears
RemoteAppears ==
    /\ pc = "polling"
    /\ poll.sleeps > 0
    /\ \E a \in {RemoteCreate(remote, GetResourceFromYaml(last.file).gvr,
                              GetNamespace(last.resource), last.resource, ErrNil)} :
          /\ a.err = ErrNil
          /\ remote' = a.store
    /\ UNCHANGED <<client, last, turn, before, calls, pc, poll>>

\* while a poller sleeps the remote system goes on: the polled resource goes away
RemoteDisappears ==
    /\ pc = "polling"
    /\ poll.sleeps > 0
    /\ \E a \in {RemoteDelete(remote, GetResourceFromYaml(last.file).gvr,
                              GetNamespace(last.resource), GetName(last.resource), ErrNil)} :
          /\ a.err = ErrNil
          /\ remote' = a.store
    /\ UNCHANGED <<client, last, turn, before, calls, pc, poll>>

NextPoll ==
    \/ ResourceShouldBeStart
    \/ ResourceShouldBeAttempt
    \/ RemoteAppears
    \/ RemoteDisappears

\* the existence poller against a remote system that changes while it sleeps
SpecPoll == InitPoll /\ [][NextPoll]_vars

----------------------------------------------------------------------------
(* The field-convergence poller.                                           *)

specReplicas == <<"s","p","e","c",".","r","e","p","l","i","c","a","s">>

\* the selectors a caller may pass: well-formed ones and others
Selectors ==
    { specReplicas \o <<"=","3">>,
      specReplicas \o <<"=","4">>,
      <<"m","e","t","a","d","a","t","a",".","n","a","m","e","=","R">>,
      <<"b","a","d","s","e","l","e","c","t","o","r">>,
      specReplicas \o <<"=","=","3">>,
      <<"=">> \o specReplicas \o <<"=","3">>,
      specReplicas \o <<"=","3","=","4">>,
      specReplicas \o <<"=">>,
      <<"=","3">>,
      <<".","=","3">> }

\* the spec subtrees the polled resource may have on the remote system
LiveSpecs == {SpecWith(StrV(<<"3">>)), SpecWith(IntV(3)), SpecWith(StrV(<<"4">>)),
              MapV(EmptyMap)}

\* the document of a file as the remote stores it, with one of its subtrees
\* as another writer left it
LiveDocument(file, key, subtree) ==
    SetResourceVersion(
        MapV([k \in DOMAIN FileDocuments[file].m \cup {key} |->
                IF k = key THEN subtree ELSE FileDocuments[file].m[k]]),
        NextRV(<<>>))

\* the store that holds just that document
StoreOf(file, doc) ==
    Key(GetResourceFromYaml(file).gvr, GetNamespace(doc), GetName(doc)) :> doc

InitConverge ==
    /\ remote \in {EmptyStore} \cup
            {StoreOf(f, LiveDocument(f, kSpec, sp)) : f \in ResourceFiles, sp \in LiveSpecs}
    /\ client \in {kc \in Sessions : kc.WaiterTries >= 0}
    /\ Idle

\* the two parts of the selector around "="
SelectorSplit(selector) == DeleteEmpty(Split(selector, "="))

\* the segments of the selector's key
SelectorKeySlice(selector) == DeleteEmpty(Split(SelectorSplit(selector)[1], "."))

\* the selector's key as a path of map keys
SelectorPath(selector) ==
    [i \in 1..Len(SelectorKeySlice(selector)) |-> MapKey(SelectorKeySlice(selector)[i])]

\* the format checks on the selector
SelectorError(selector) ==
    IF Len(SelectorSplit(selector)) # 2 THEN ErrFormat
    ELSE IF Len(SelectorKeySlice(selector)) < 1 THEN ErrFormat
    ELSE ErrNil

\* ClientSet.ResourceShouldConvergeToSelector up to its loop: Validate, the
\* format checks, the resolution of the file
ResourceShouldConvergeToSelectorCalled(files, selectors) ==
    /\ pc = "idle"
    /\ \E file \in files, selector \in selectors :
            PollCalled("ResourceShouldConvergeToSelector", file, selector,
                       IF Validate(client) # ErrNil THEN Validate(client)
                       ELSE IF SelectorError(selector) # ErrNil
                            THEN SelectorError(selector)
                       ELSE ResolutionError(file))

ResourceShouldConvergeToSelectorStart ==
    ResourceShouldConvergeToSelectorCalled(ResourceFiles, Selectors)

\* one turn of the loop of ClientSet.ResourceShouldConvergeToSelector
ResourceShouldConvergeToSelectorAttempt ==
    /\ pc = "polling"
    /\ last.fn = "ResourceShouldConvergeToSelector"
    /\ IF BudgetExhausted(poll.counter, client)
       THEN PollReturns(ErrTimeout, poll)
       ELSE \E fault \in Faults :
            \E g \in {PollFetch(last.file, fault)} :
            LET value == SelectorSplit(last.arg)[2]
                field == NestedFieldNoCopy(g.obj, SelectorPath(last.arg))
                seen == /\ g.err = "nil"
                        /\ field.found
                        /\ \/ field.val.t = "string" /\ EqualFold(field.val.s, value)
                           \/ /\ field.val.t = "int64"
                              /\ IF field.val.n < 0
                                 THEN /\ 0 - field.val.n \in DOMAIN Digits
                                      /\ <<"-", Digits[0 - field.val.n]>> = value
                                 ELSE /\ field.val.n \in DOMAIN Digits
                                      /\ <<Digits[field.val.n]>> = value
                fetched == [poll EXCEPT !.fetches = @ + 1, !.answer = g.err,
                                        !.observed = @ + (IF seen THEN 1 ELSE 0)]
                str == NestedString(g.obj, SelectorPath(last.arg))
            IN
            IF g.err # ErrNil
            THEN PollReturns(g.err, fetched)
            ELSE IF str.found /\ str.err
            THEN PollReturns("field error", fetched)
            ELSE IF str.found /\ EqualFold(str.val, value)
            THEN PollReturns(ErrNil, fetched)
            ELSE PollSleeps(fetched)
    /\ UNCHANGED <<remote, client, turn, before, calls>>

\* the polled resource, when the remote system holds it
PolledKey ==
    Key(GetResourceFromYaml(last.file).gvr, GetNamespace(last.resource),
        GetName(last.resource))

\* while a poller sleeps another writer updates a subtree of the polled resource
RemoteChanges(key, subtrees) ==
    /\ pc = "polling"
    /\ poll.sleeps > 0
    /\ PolledKey \in DOMAIN remote
    /\ \E subtree \in subtrees :
       \E a \in {RemoteUpdate(remote, GetResourceFromYaml(last.file).gvr,
                              GetNamespace(last.resource),
                              LiveDocument(last.file, key, subtree), "nil")} :
          /\ subtree # remote[PolledKey].m[key]
          /\ a.err \in {"nil", "Conflict"}
          /\ WithinRV(a.store)
          /\ remote' = a.store
    /\ UNCHANGED <<client, last, turn, before, calls, pc, poll>>

SpecChanges == RemoteChanges(kSpec, LiveSpecs)

NextConverge ==
    \/ ResourceShouldConvergeToSelectorStart
    \/ ResourceShouldConvergeToSelectorAttempt
    \/ RemoteAppears
    \/ RemoteDisappears
    \/ SpecChanges

\* the field-convergence poller against a remote system that changes while it sleeps
SpecConverge == InitConverge /\ [][NextConverge]_vars

----------------------------------------------------------------------------
(* The condition-match poller.                                             *)

Ready == <<"R","e","a","d","y">>
Other == <<"O","t","h","e","r">>

\* the statuses a caller may ask for
Statuses == { <<"t","r","u","e">>, <<"T","R","U","E">>, <<"T","r","u","e">>,
              <<"f","a","l","s","e">> }

\* an entry of status.conditions
Condition(type, status) == MapV(kType :> StrV(type) @@ kStatus :> StrV(status))

ReadyTrue  == Condition(Ready, <<"T","r","u","e">>)
ReadyFalse == Condition(Ready, <<"F","a","l","s","e">>)

\* the status subtrees the polled resource may have on the remote system: with
\* well-shaped entries, with entries of other shapes, and without a list
LiveStatuses ==
    { NoStatus,
      MapV(kConditions :> StrV(<<"n","o","n","e">>)),
      MapV(kConditions :> ListV(<<ReadyTrue>>)),
      MapV(kConditions :> ListV(<<ReadyFalse>>)),
      MapV(kConditions :> ListV(<<ReadyFalse, ReadyTrue>>)),
      MapV(kConditions :> ListV(<<StrV(Ready), MapV(kStatus :> StrV(<<"T","r","u","e">>)),
                                  MapV(kType :> IntV(1)),
                                  Condition(Other, <<"T","r","u","e">>), ReadyTrue>>)),
      MapV(kConditions :> ListV(<<MapV(kType :> StrV(Ready)), ReadyTrue>>)),
      MapV(kConditions :> ListV(<<MapV(kType :> StrV(Ready) @@ kStatus :> IntV(1))>>)) }

InitCondition ==
    /\ remote \in {EmptyStore} \cup
            {StoreOf(f, LiveDocument(f, kStatus, st)) : f \in ResourceFiles, st \in LiveStatuses}
    /\ client \in {kc \in Sessions : kc.WaiterTries >= 0}
    /\ Idle

\* the comparison of the status of an entry with the expected, capitalized one
StatusMatches(status, expectedStatus) == status = expectedStatus

\* the scan of status.conditions: "match" when an entry of the type carries the
\* expected status, "none" when the list ends without one, "panic" at the type
\* assertion on the status of an entry of the type
RECURSIVE ScanConditions(_, _, _)
ScanConditions(conditions, cType, expectedStatus) ==
    IF conditions = <<>> THEN "none"
    ELSE LET c == Head(conditions) IN
         IF c.t # "map" THEN ScanConditions(Tail(conditions), cType, expectedStatus)
         ELSE IF kType \notin DOMAIN c.m
            THEN ScanConditions(Tail(conditions), cType, expectedStatus)
         ELSE IF c.m[kType].t # "string"
            THEN ScanConditions(Tail(conditions), cType, expectedStatus)
         ELSE IF c.m[kType].s # cType
            THEN ScanConditions(Tail(conditions), cType, expectedStatus)
         ELSE IF kStatus \notin DOMAIN c.m \/ c.m[kStatus].t # "string" THEN "panic"
         ELSE IF StatusMatches(c.m[kStatus].s, expectedStatus) THEN "match"
         ELSE ScanConditions(Tail(conditions), cType, expectedStatus)

\* ClientSet.ResourceConditionShouldBe up to its loop
ResourceConditionShouldBeCalled(files) ==
    /\ pc = "idle"
    /\ \E file \in files, cType \in {Ready}, status \in Statuses :
            PollCalled("ResourceConditionShouldBe", file,
                       [cType |-> cType, status |-> status,
                        expectedStatus |-> Title(status)],
                       EntryError(client, file))

ResourceConditionShouldBeStart == ResourceConditionShouldBeCalled(ResourceFiles)

\* one turn of the loop of ClientSet.ResourceConditionShouldBe
ResourceConditionShouldBeAttempt ==
    /\ pc = "polling"
    /\ last.fn = "ResourceConditionShouldBe"
    /\ IF BudgetExhausted(poll.counter, client)
       THEN PollReturns(ErrTimeout, poll)
       ELSE \E fault \in Faults :
            \E g \in {PollFetch(last.file, fault)} :
            LET conditions == NestedSlice(g.obj, <<kStatus, kConditions>>)
                seen == /\ g.err = "nil"
                        /\ conditions.found
                        /\ \E n \in 1..Len(conditions.val) :
                              /\ conditions.val[n].t = "map"
                              /\ DOMAIN conditions.val[n].m = {"type", "status"}
                              /\ conditions.val[n].m["type"] = StrV(last.arg.cType)
                              /\ conditions.val[n].m["status"].t = "string"
                              /\ EqualFold(conditions.val[n].m["status"].s, last.arg.status)
                fetched == [poll EXCEPT !.fetches = @ + 1, !.answer = g.err,
                                        !.observed = @ + (IF seen THEN 1 ELSE 0)]
                scan == IF conditions.found
                        THEN ScanConditions(conditions.val, last.arg.cType,
                                            last.arg.expectedStatus)
                        ELSE "none"
            IN
            IF g.err # ErrNil
            THEN PollReturns(g.err, fetched)
            ELSE IF conditions.found /\ conditions.err
            THEN PollReturns("field error", fetched)
            ELSE IF scan = "panic"
            THEN PollReturns(ErrPanic, fetched)
            ELSE IF scan = "match"
            THEN PollReturns(ErrNil, fetched)
            ELSE PollSleeps(fetched)
    /\ UNCHANGED <<remote, client, turn, before, calls>>

StatusChanges == RemoteChanges(kStatus, LiveStatuses)

NextCondition ==
    \/ ResourceConditionShouldBeStart
    \/ ResourceConditionShouldBeAttempt
    \/ RemoteAppears
    \/ RemoteDisappears
    \/ StatusChanges

\* the condition-match poller against a remote system that changes while it sleeps
SpecCondition == InitCondition /\ [][NextCondition]_vars

ReadyLower == Condition(Ready, <<"t","r","u","e">>)

\* status subtrees whose entries are all well shaped, some with a status in
\* lower case
LowerStatuses ==
    { MapV(kConditions :> ListV(<<ReadyLower>>)),
      MapV(kConditions :> ListV(<<ReadyTrue>>)),
      MapV(kConditions :> ListV(<<ReadyFalse, ReadyLower>>)),
      MapV(kConditions :> ListV(<<Condition(Other, <<"T","r","u","e">>), ReadyLower>>)) }

InitLowerStatus ==
    /\ remote \in {StoreOf(f, LiveDocument(f, kStatus, st)) :
                        f \in ResourceFiles, st \in LowerStatuses}
    /\ client \in {kc \in Sessions : kc.WaiterTries >= 1}
    /\ Idle

LowerStatusChanges == RemoteChanges(kStatus, LowerStatuses)

NextLowerStatus ==
    \/ ResourceConditionShouldBeStart
    \/ ResourceConditionShouldBeAttempt
    \/ LowerStatusChanges

\* the condition-match poller against documents with well-shaped entries
SpecLowerStatus == InitLowerStatus /\ [][NextLowerStatus]_vars

----------------------------------------------------------------------------
(* The three pollers together.                                             *)

\* a session with a configured attempt budget, against a remote system that
\* holds one resource, in any of the shapes above, or none
InitPollers ==
    /\ remote \in {EmptyStore} \cup
            {StoreOf(f, LiveDocument(f, kSpec, sp)) : f \in ResourceFiles, sp \in LiveSpecs}
            \cup
            {StoreOf(f, LiveDocument(f, kStatus, st)) : f \in ResourceFiles, st \in LiveStatuses}
    /\ client \in {kc \in Sessions : kc.WaiterTries >= 1}
    /\ Idle

NextPollers ==
    \/ ResourceShouldBeStart
    \/ ResourceShouldBeAttempt
    \/ ResourceShouldConvergeToSelectorStart
    \/ ResourceShouldConvergeToSelectorAttempt
    \/ ResourceConditionShouldBeStart
    \/ ResourceConditionShouldBeAttempt
    \/ RemoteAppears
    \/ RemoteDisappears

SpecPollers == InitPollers /\ [][NextPollers]_vars

PollTurn ==
    \/ ResourceShouldBeAttempt
    \/ ResourceShouldConvergeToSelectorAttempt
    \/ ResourceConditionShouldBeAttempt

\* the same with the loops going on: a call of Get returns and a sleep ends, so
\* a poll that can take a turn takes it.  This is weak fairness of PollTurn
\* written out: a turn is possible exactly while a poll runs
SpecPollersFair ==
    SpecPollers /\ ([]<>(pc # "polling") \/ []<><<PollTurn>>_vars)

----------------------------------------------------------------------------
(* Dispatches and polls of one document in one session.                    *)

InitFrame ==
    /\ remote = EmptyStore
    /\ client \in {[NewClient EXCEPT !.WaiterTries = n] : n \in 1..2}
    /\ Idle

\* a direct call of ClientSet.unstructuredResourceOperation with the document of
\* resource-without-namespace.yaml, or with one that carries a version token
DispatchOne ==
    /\ pc = "idle"
    /\ \E operation \in OperationTokens, file \in {"noNs"} \cup StaleFiles,
          f1 \in Faults :
        \E f2 \in IF operation = operationUpdate THEN UpdateFaults ELSE {ErrNil} :
        \E o \in {unstructuredResourceOperation(client, remote, operation, nsNone,
                                                GetResourceFromYaml(file), f1, f2)} :
            Returned("ClientSet.unstructuredResourceOperation", operation, nsNone,
                     file, o)

NextFrame ==
    \/ DispatchOne
    \/ ResourceShouldBeStart
    \/ ResourceShouldBeAttempt
    \/ ResourceShouldConvergeToSelectorStart
    \/ ResourceShouldConvergeToSelectorAttempt
    \/ ResourceConditionShouldBeStart
    \/ ResourceConditionShouldBeAttempt

\* the dispatcher and the three pollers on the same documents
SpecFrame == InitFrame /\ [][NextFrame]_vars


----------------------------------------------------------------------------
(* Sessions with a configured retry policy.                                *)

\* the sessions with any configured attempt count and interval, zero and
\* negative included
WaiterSessions ==
    {[NewClient EXCEPT !.WaiterTries = n, !.WaiterInterval = i] :
        n \in -1..MaxTries, i \in -1..MaxInterval}

InitWaiter ==
    /\ remote \in {EmptyStore,
                   StoreOf("noNs", LiveDocument("noNs", kSpec, SpecWith(StrV(<<"3">>))))}
    /\ client \in WaiterSessions
    /\ Idle

NextWaiter ==
    \/ ResourceShouldBeStart
    \/ ResourceShouldBeAttempt
    \/ ResourceShouldConvergeToSelectorStart
    \/ ResourceShouldConvergeToSelectorAttempt
    \/ ResourceConditionShouldBeStart
    \/ ResourceConditionShouldBeAttempt

\* the three polls under every retry policy, against a remote that stays as it is
SpecWaiter == InitWaiter /\ [][NextWaiter]_vars

----------------------------------------------------------------------------
(* The batch operations.                                                   *)

testNs == <<"t","e","s","t","-","n","s">>

\* the paths that resolve to several documents, none with an embedded namespace
MultiFiles == {"two", "three"}

MultiDocuments ==
    [path \in MultiFiles |->
        CASE path = "two" ->
                <<[gvr |-> someResource,
                   resource |-> Document(<<"r">>, nsNone, SpecWith(StrV(<<"3">>)), NoStatus)],
                  [gvr |-> someResource,
                   resource |-> Document(<<"s">>, nsNone, SpecWith(StrV(<<"3">>)), NoStatus)]>>
          [] path = "three" ->
                <<[gvr |-> someResource,
                   resource |-> Document(<<"r">>, nsNone, SpecWith(StrV(<<"3">>)), NoStatus)],
                  [gvr |-> someResource,
                   resource |-> Document(<<"s">>, nsNone, SpecWith(StrV(<<"3">>)), NoStatus)],
                  [gvr |-> someResource,
                   resource |-> Document(<<"t">>, nsNone, SpecWith(StrV(<<"3">>)), NoStatus)]>>]

\* util.GetMultipleResourcesFromYaml: the resources of the path in document
\* order, none when the resolution fails
GetMultipleResourcesFromYaml(path) ==
    IF path \in UnresolvedFiles THEN <<>> ELSE MultiDocuments[path]

\* the operation tokens the batch operations are called with
MultiOperationTokens == {operationCreate, operationUpdate, operationDelete, "patch"}

\* mutant: the loop goes on after an error and returns the last one
ApplyInOrder_ContinueOnError(kc, store, operation, ns, resourceList, refused, log) ==
    LET RECURSIVE go(_, _, _, _, _)
        go(st, list, r, lg, err) ==
            IF list = <<>> THEN Outcome(err, lg, st, NilV)
            ELSE LET o == unstructuredResourceOperation(kc, st, operation, ns, Head(list),
                              IF r = 1 THEN ErrForbidden ELSE ErrNil, ErrNil)
                 IN go(o.store, Tail(list), r - 1, lg \o o.calls,
                       IF o.err # ErrNil THEN o.err ELSE err)
    IN go(store, resourceList, refused, log, ErrNil)

\* mutant: the loop returns after its first element
ApplyInOrder_FirstOnly(kc, store, operation, ns, resourceList, refused, log) ==
    IF resourceList = <<>> THEN Outcome(ErrNil, log, store, NilV)
    ELSE LET o == unstructuredResourceOperation(kc, store, operation, ns, Head(resourceList),
                      IF refused = 1 THEN ErrForbidden ELSE ErrNil, ErrNil)
         IN Outcome(o.err, log \o o.calls, o.store, NilV)

\* the loop of the batch operations over the resolved list: the remote refuses
\* the first request for element number `refused` (0: it refuses none)
RECURSIVE ApplyInOrder(_, _, _, _, _, _, _)

\* the body of the loop once the dispatch of the first element returned o: its
\* error ends the loop, otherwise the loop goes on with the rest
ApplyRest(kc, operation, ns, resourceList, refused, log, o) ==
    IF o.err # ErrNil
    THEN Outcome(o.err, log \o o.calls, o.store, NilV)
    ELSE ApplyInOrder(kc, o.store, operation, ns, Tail(resourceList), refused - 1,
                      log \o o.calls)

ApplyInOrder(kc, store, operation, ns, resourceList, refused, log) ==
    IF resourceList = <<>> THEN Outcome(ErrNil, log, store, NilV)
    ELSE ApplyRest(kc, operation, ns, resourceList, refused, log,
                   unstructuredResourceOperation(kc, store, operation, ns,
                        Head(resourceList),
                        IF refused = 1 THEN ErrForbidden ELSE ErrNil, ErrNil))

\* parseMultipleResources and the loop
MultiOutcome(kc, store, operation, ns, path, refused) ==
    IF EntryError(kc, path) # ErrNil THEN Outcome(EntryError(kc, path), <<>>, store, NilV)
    ELSE ApplyInOrder(kc, store, operation, ns, GetMultipleResourcesFromYaml(path),
                      refused, <<>>)

\* ClientSet.MultiResourceOperation
MultiResourceOperation ==
    /\ pc = "idle"
    /\ \E operation \in MultiOperationTokens, path \in MultiFiles :
       \E refused \in 0..Len(MultiDocuments[path]) :
       \E o \in {MultiOutcome(client, remote, operation, nsNone, path, refused)} :
            Returned("MultiResourceOperation", operation, nsNone, path, o)

\* ClientSet.MultiResourceOperationInNamespace
MultiResourceOperationInNamespace ==
    /\ pc = "idle"
    /\ \E operation \in MultiOperationTokens, path \in {"two"} :
       \E refused \in 0..Len(MultiDocuments[path]) :
       \E o \in {MultiOutcome(client, remote, operation, testNs, path, refused)} :
            Returned("MultiResourceOperationInNamespace", operation, testNs, path, o)

NextMulti ==
    \/ MultiResourceOperation
    \/ MultiResourceOperationInNamespace

\* the batch operations against a remote system that starts empty
SpecMulti == Init /\ [][NextMulti]_vars

----------------------------------------------------------------------------
(* The single-resource operations and the result-checking wrapper.         *)

ErrUnexpected == "unexpected error"
ErrExpected   == "expected error, received none"

fail == <<"f","a","i","l">>

\* the expectations a caller may pass
ExpectedResults == {fail, <<"F","A","I","L">>, <<"s","u","c","c","e","s","s">>}

\* ClientSet.ResourceOperationInNamespace: parseSingleResource (Validate, then
\* the resolution of the file) and the dispatch
ResourceOperationInNamespace(kc, store, operation, file, ns, f1, f2) ==
    IF EntryError(kc, file) # ErrNil THEN Outcome(EntryError(kc, file), <<>>, store, NilV)
    ELSE unstructuredResourceOperation(kc, store, operation, ns,
                                       GetResourceFromYaml(file), f1, f2)

\* mutant: a missing expected error is not reported
ResultError_NoExpectedCheck(expectedResult, err) ==
    IF ~EqualFold(expectedResult, fail) /\ err # ErrNil THEN ErrUnexpected
    ELSE ErrNil

\* what ResourceOperationWithResultInNamespace returns for the error of the
\* operation it ran
ResultError(expectedResult, err) ==
    IF ~EqualFold(expectedResult, fail) /\ err # ErrNil THEN ErrUnexpected
    ELSE IF EqualFold(expectedResult, fail) /\ err = ErrNil THEN ErrExpected
    ELSE ErrNil

\* the call returns: its outcome o becomes the state, arg is its extra argument
ReturnedWith(fn, operation, ns, file, arg, o) ==
    /\ WithinRV(o.store)
    /\ remote' = o.store
    /\ calls' = o.calls
    /\ last' = [fn |-> fn, operation |-> operation, ns |-> ns, file |-> file,
                arg |-> arg, err |-> o.err, resource |-> o.resource]
    /\ turn' = 1 - turn
    /\ before' = remote
    /\ UNCHANGED <<client, pc, poll>>

\* the operation tokens the wrapper is called with
ResultOperationTokens == {operationCreate, operationUpdate, operationDelete, "patch"}

\* ClientSet.ResourceOperationWithResultInNamespace
ResourceOperationWithResultInNamespace ==
    /\ pc = "idle"
    /\ \E operation \in ResultOperationTokens, ns \in Namespaces, file \in ResourceFiles,
          expectedResult \in ExpectedResults, f1 \in Faults :
        \E o \in {ResourceOperationInNamespace(client, remote, operation, file, ns,
                                               f1, ErrNil)} :
            ReturnedWith("ResourceOperationWithResultInNamespace", operation, ns, file,
                         expectedResult,
                         [o EXCEPT !.err = ResultError(expectedResult, o.err)])

NextResult ==
    \/ ResourceOperationWithResultInNamespace

\* the result-checking wrapper against a remote system that starts empty
SpecResult == Init /\ [][NextResult]_vars

----------------------------------------------------------------------------
(* UpdateResourceWithField.                                                *)

DecimalDigits == <<"0","1","2","3","4","5","6","7","8","9">>

\* the number a string of decimal digits writes
RECURSIVE DecimalValue(_)
DecimalValue(ds) ==
    IF ds = <<>> THEN 0
    ELSE 10 * DecimalValue(SubSeq(ds, 1, Len(ds) - 1))
         + (IndexIn(ds[Len(ds)], DecimalDigits) - 1)

\* strconv.ParseInt(value, 10, 64): an optional sign and decimal digits; the
\* values of FieldValues are short, so the number always fits 64 bits
ParseInt(value) ==
    LET signed == value # <<>> /\ value[1] \in {"+", "-"}
        ds     == IF signed THEN Tail(value) ELSE value
        n      == IF signed /\ value[1] = "-" THEN 0 - DecimalValue(ds) ELSE DecimalValue(ds)
    IN
    IF ds = <<>> \/ \E i \in DOMAIN ds : IndexIn(ds[i], DecimalDigits) = 0
        THEN [n |-> 0, ok |-> FALSE]
    ELSE [n |-> n, ok |-> TRUE]

\* mutant: the value is always written as the string it was given as
FieldValue_AlwaysString(value) == StrV(value)

\* mutant: the value is written as a number whatever it is
FieldValue_AlwaysNumber(value) == IntV(ParseInt(value).n)

\* the value written into the object: the number when the string parses as
\* one (overrideType), the string otherwise
FieldValue(value) ==
    IF ParseInt(value).ok THEN IntV(ParseInt(value).n) ELSE StrV(value)

ErrNotAMap == "value cannot be set"

\* unstructured.SetNestedField below the top: the maps missing on the way are
\* made, a value on the way that is not a map is an error
RECURSIVE setNestedFieldNoCopy(_, _, _)
setNestedFieldNoCopy(m, value, fields) ==
    IF Len(fields) = 1
    THEN [err |-> ErrNil,
          m |-> [k \in DOMAIN m \cup {fields[1]} |-> IF k = fields[1] THEN value ELSE m[k]]]
    ELSE IF fields[1] \in DOMAIN m /\ m[fields[1]].t # "map"
    THEN [err |-> ErrNotAMap, m |-> m]
    ELSE LET below == IF fields[1] \in DOMAIN m THEN m[fields[1]].m ELSE EmptyMap
             r == setNestedFieldNoCopy(below, value, Tail(fields))
         IN [err |-> r.err,
             m |-> IF r.err # ErrNil THEN m
                   ELSE [k \in DOMAIN m \cup {fields[1]} |->
                            IF k = fields[1] THEN MapV(r.m) ELSE m[k]]]

\* unstructured.SetNestedField: with no field at all the slice expression
\* fields[:len(fields)-1] panics
SetNestedField(obj, value, fields) ==
    IF fields = <<>> THEN [err |-> ErrPanic, obj |-> obj]
    ELSE LET r == setNestedFieldNoCopy(obj.m, value, fields)
         IN [err |-> r.err, obj |-> MapV(r.m)]

\* the key chain as a path of map keys
KeySlice(key) ==
    LET keySlice == DeleteEmpty(Split(key, "."))
    IN [i \in 1..Len(keySlice) |-> MapKey(keySlice[i])]

\* ClientSet.UpdateResourceWithField
UpdateResourceWithFieldOutcome(kc, store, file, key, value, f1, f2) ==
    IF EntryError(kc, file) # ErrNil THEN Outcome(EntryError(kc, file), <<>>, store, NilV)
    ELSE
    LET loaded == GetResourceFromYaml(file)
        gvr == loaded.gvr
        resource == loaded.resource
        ns == GetNamespace(resource)
        g == RemoteGet(store, gvr, ns, GetName(resource), f1)
        gcall == Call("get", gvr, ns, GetName(resource), <<>>, g.err)
    IN
    IF g.err # ErrNil THEN Outcome(g.err, <<gcall>>, store, resource)
    ELSE
    LET set == SetNestedField(g.obj, FieldValue(value), KeySlice(key)) IN
    IF set.err # ErrNil THEN Outcome(set.err, <<gcall>>, store, resource)
    ELSE
    LET u == RemoteUpdate(g.store, gvr, ns, set.obj, f2) IN
    Outcome(u.err,
            <<gcall, Call("update", gvr, ns, GetName(set.obj),
                          GetResourceVersion(set.obj), u.err)>>,
            u.store, set.obj)

\* testUpdateKeyChain of the test, with a shorter last key
labelsKey == <<".","m","e","t","a","d","a","t","a",".","l","a","b","e","l","s",".","k">>

\* the key chains a caller may pass
FieldKeys == {labelsKey, specReplicas, specReplicas \o <<".","x">>, <<".">>}

\* the values a caller may pass
FieldValues == {<<"v">>, <<"4">>, <<"-","4">>}

\* a session against a remote system that holds the resource of one file, as
\* another writer left it, or nothing
InitField ==
    /\ remote \in {EmptyStore} \cup
            {StoreOf(f, LiveDocument(f, kSpec, sp)) : f \in ResourceFiles, sp \in LiveSpecs}
    /\ client = NewClient
    /\ Idle

\* a call of ClientSet.UpdateResourceWithField
UpdateResourceWithFieldCalled(files, keys) ==
    /\ pc = "idle"
    /\ \E file \in files, key \in keys, value \in FieldValues,
          f1 \in Faults :
        \E f2 \in IF f1 = ErrNil THEN UpdateFaults ELSE {ErrNil} :
        \E o \in {UpdateResourceWithFieldOutcome(client, remote, file, key, value,
                                                 f1, f2)} :
            ReturnedWith("UpdateResourceWithField", operationUpdate, nsNone, file,
                         <<key, value>>, o)

UpdateResourceWithField == UpdateResourceWithFieldCalled(ResourceFiles, FieldKeys)

NextField ==
    \/ UpdateResourceWithField

\* updates of one field of a live resource
SpecField == InitField /\ [][NextField]_vars

----------------------------------------------------------------------------
(* Sessions whose client lacks handles.                                    *)

\* the ClientSets with at least one of the three handles left nil
NoHandleClients ==
    {[DynamicInterface |-> d, DiscoveryInterface |-> c, KubeInterface |-> k,
      WaiterTries |-> 0, WaiterInterval |-> 0] : d, c, k \in BOOLEAN} \ {NewClient}

InitNoHandle ==
    /\ remote = EmptyStore
    /\ client \in NoHandleClients
    /\ Idle

\* a direct call of ClientSet.unstructuredResourceOperation that creates the
\* resource of resource-with-namespace.yaml, or passes a token the switch does
\* not know
DispatchCreates ==
    /\ pc = "idle"
    /\ \E operation \in {operationCreate, "patch"}, file \in {"withNs"} :
        \E o \in {unstructuredResourceOperation(client, remote, operation, nsNone,
                                                GetResourceFromYaml(file), ErrNil, ErrNil)} :
            Returned("ClientSet.unstructuredResourceOperation", operation, nsNone, file, o)

\* the entry points called on such a client; the pollers return from their
\* first step, before the loop
NextNoHandle ==
    \/ DispatchCreates
    \/ MultiResourceOperation
    \/ MultiResourceOperationInNamespace
    \/ ResourceOperationWithResultInNamespace
    \/ UpdateResourceWithField
    \/ ResourceShouldBeStart
    \/ ResourceShouldConvergeToSelectorStart
    \/ ResourceConditionShouldBeStart

SpecNoHandle == InitNoHandle /\ [][NextNoHandle]_vars

----------------------------------------------------------------------------
(* DeleteResourcesAtPath: the deletion of every resource under a directory *)
(* and the wait for each of them to be gone.                               *)

ErrDiscover        == "Failed getting the kubernetes client"
ErrDecode          == "decode error"
ErrDeletionTimeout == "waiter timed out waiting for deletion"

\* the outcomes of kc.DiscoverClients(): it succeeds, or it fails and the call
\* returns at once; on success the handles of the client are the ones it holds
DiscoverClients == {ErrNil, ErrDiscover}

\* an entry of a directory tree: the names on its way from the root, whether it
\* is a directory, its extension and, for a file, what it holds
Entry(path, isDir, ext, holds) ==
    [path |-> path, isDir |-> isDir, ext |-> ext, holds |-> holds]

\* the directories a caller may name.  templates: a.yaml, b.yaml, n.txt and the
\* directory s with s/c.yaml.  broken: a.yaml, b.yaml that does not decode, and
\* c.yaml
TreePaths == {"templates", "broken"}

Trees ==
    [root \in TreePaths |->
        IF root = "templates"
        THEN {Entry(<<>>, TRUE, "", ""),
              Entry(<<"s">>, TRUE, "", ""),
              Entry(<<"s", "c">>, FALSE, ".yaml", "c"),
              Entry(<<"n">>, FALSE, ".txt", ""),
              Entry(<<"b">>, FALSE, ".yaml", "b"),
              Entry(<<"a">>, FALSE, ".yaml", "a")}
        ELSE {Entry(<<>>, TRUE, "", ""),
              Entry(<<"c">>, FALSE, ".yaml", "c"),
              Entry(<<"b">>, FALSE, ".yaml", "undecodable"),
              Entry(<<"a">>, FALSE, ".yaml", "a")}]

\* the resources the files of the trees declare, all in namespace a
TreeResources == {"a", "b", "c"}

TreeDocument(holds) == Document(<<holds>>, nsA, SpecWith(StrV(<<"3">>)), NoStatus)

\* util.GetResourceFromYaml on a file of a tree: the resource, or the error of
\* a file that does not decode
GetResourceFromYamlAt(entry) ==
    IF entry.holds \in TreeResources
    THEN [err |-> ErrNil, gvr |-> someResource, resource |-> TreeDocument(entry.holds)]
    ELSE [err |-> ErrDecode, gvr |-> someResource, resource |-> NilV]

\* mutant: the later name comes first
NameBefore_Reversed(n, o) == IndexIn(n, LowerLetters) >= IndexIn(o, LowerLetters)

\* the lexical order of two names of a directory
NameBefore(n, o) == IndexIn(n, LowerLetters) <= IndexIn(o, LowerLetters)

\* the names of a directory in lexical order, as filepath.Walk reads them
RECURSIVE SortNames(_)
SortNames(names) ==
    IF names = {} THEN <<>>
    ELSE LET first == CHOOSE n \in names : \A o \in names : NameBefore(n, o)
         IN <<first>> \o SortNames(names \ {first})

ChildNames(tree, path) ==
    {e.path[Len(path) + 1] :
        e \in {x \in tree : /\ Len(x.path) = Len(path) + 1
                            /\ SubSeq(x.path, 1, Len(path)) = path}}

\* filepath.Walk: the entry at path, then, for a directory, the walks of its
\* entries in the lexical order of their names
RECURSIVE WalkFrom(_, _), WalkNames(_, _, _)
WalkNames(tree, path, names) ==
    IF names = <<>> THEN <<>>
    ELSE WalkFrom(tree, Append(path, Head(names))) \o WalkNames(tree, path, Tail(names))

WalkFrom(tree, path) ==
    LET e == CHOOSE x \in tree : x.path = path IN
    <<e>> \o (IF e.isDir THEN WalkNames(tree, path, SortNames(ChildNames(tree, path)))
              ELSE <<>>)

Walk(root) == WalkFrom(Trees[root], <<>>)

\* mutant: the extension is not looked at
IsResourceFile_AnyFile(entry) == ~entry.isDir

\* the test that opens deleteFn and waitFn: directories and files that are not
\* .yaml files are passed over
IsResourceFile(entry) == ~(entry.isDir \/ entry.ext # ".yaml")

\* mutant: deleteFn absorbs not-found as the dispatcher's delete does
DeleteFnError_AbsorbsNotFound(err) == IF IsNotFound(err) THEN ErrNil ELSE err

\* mutant: deleteFn does not return the error of the Delete request
DeleteFnError_Ignored(err) == ErrNil

\* the error deleteFn returns for the answer to its Delete request: any error,
\* not-found included
DeleteFnError(err) == err

\* the first walk, with deleteFn: the remote refuses the Delete request for
\* resource file number `refused` (0: it refuses none).  The first error ends
\* the walk
RECURSIVE DeleteWalk(_, _, _, _)

\* deleteFn once its Delete request was answered by a
DeleteSubmitted(entries, refused, log, a, call) ==
    IF DeleteFnError(a.err) # ErrNil
    THEN Outcome(DeleteFnError(a.err), Append(log, call), a.store, NilV)
    ELSE DeleteWalk(Tail(entries), a.store, refused - 1, Append(log, call))

\* deleteFn on a resource file that resolved to r
DeleteResolved(entries, store, refused, log, r) ==
    IF r.err # ErrNil THEN Outcome(r.err, log, store, NilV)
    ELSE DeleteSubmitted(entries, refused, log,
            RemoteDelete(store, r.gvr, GetNamespace(r.resource), GetName(r.resource),
                         IF refused = 1 THEN ErrForbidden ELSE ErrNil),
            Call("delete", r.gvr, GetNamespace(r.resource), GetName(r.resource), <<>>,
                 RemoteDelete(store, r.gvr, GetNamespace(r.resource),
                              GetName(r.resource),
                              IF refused = 1 THEN ErrForbidden ELSE ErrNil).err))

DeleteWalk(entries, store, refused, log) ==
    IF entries = <<>> THEN Outcome(ErrNil, log, store, NilV)
    ELSE IF ~IsResourceFile(Head(entries))
    THEN DeleteWalk(Tail(entries), store, refused, log)
    ELSE DeleteResolved(entries, store, refused, log, GetResourceFromYamlAt(Head(entries)))

\* the place of the first resource file at or after place i of a walk, or the
\* place after the last entry
RECURSIVE NextResourceFile(_, _)
NextResourceFile(entries, i) ==
    IF i > Len(entries) THEN i
    ELSE IF IsResourceFile(entries[i]) THEN i
    ELSE NextResourceFile(entries, i + 1)

\* sessions with a configured number of tries
TreeSessions == {[NewClient EXCEPT !.WaiterTries = n] : n \in 1..MaxTries}

\* the remote holds the three resources, or lacks the second one
TreeStore(names) ==
    [k \in {Key(someResource, nsA, <<n>>) : n \in names} |->
        SetResourceVersion(TreeDocument(k[3][1]), NextRV(<<>>))]

InitDeletePath ==
    /\ remote \in {TreeStore({"a", "b", "c"}), TreeStore({"a", "c"})}
    /\ client \in TreeSessions
    /\ Idle

\* mutant: one counter for the whole second walk
FileCounter_Shared(counter) == counter

\* var counter int in waitFn: the wait of each file starts its own counter
FileCounter(counter) == 0

\* the second walk moves on from place i: to the wait of the next resource
\* file, or to the return of DeleteResourcesAtPath when there is none
WaitMovesOn(call, entries, i, log) ==
    LET j == NextResourceFile(entries, i) IN
    /\ calls' = log
    /\ poll' = [NoPoll EXCEPT !.counter = FileCounter(poll.counter)]
    /\ IF j > Len(entries)
       THEN /\ last' = [call EXCEPT !.fn = "DeleteResourcesAtPath", !.arg = j,
                                    !.err = ErrNil]
            /\ pc' = "idle"
       ELSE IF GetResourceFromYamlAt(entries[j]).err # ErrNil
       THEN /\ last' = [call EXCEPT !.fn = "DeleteResourcesAtPath", !.arg = j,
                                    !.err = GetResourceFromYamlAt(entries[j]).err]
            /\ pc' = "idle"
       ELSE /\ last' = [call EXCEPT !.fn = "DeleteResourcesAtPath", !.arg = j,
                                    !.err = "pending"]
            /\ pc' = "waiting"

\* ClientSet.DeleteResourcesAtPath up to the first turn of the first wait:
\* DiscoverClients and the whole first walk
DeleteResourcesAtPathStart ==
    /\ pc = "idle"
    /\ \E root \in TreePaths, discovered \in DiscoverClients, refused \in 0..2 :
        /\ before' = remote
        /\ turn' = 1 - turn
        /\ UNCHANGED client
        /\ IF discovered # ErrNil
           THEN /\ last' = [NoCall EXCEPT !.fn = "DeleteResourcesAtPath", !.file = root,
                                          !.arg = 0, !.err = discovered]
                /\ calls' = <<>>
                /\ poll' = NoPoll
                /\ UNCHANGED <<remote, pc>>
           ELSE \E o \in {DeleteWalk(Walk(root), remote, refused, <<>>)} :
                /\ remote' = o.store
                /\ IF o.err # ErrNil
                   THEN /\ last' = [NoCall EXCEPT !.fn = "DeleteResourcesAtPath",
                                                  !.file = root, !.arg = 0, !.err = o.err]
                        /\ calls' = o.calls
                        /\ poll' = NoPoll
                        /\ UNCHANGED pc
                   ELSE WaitMovesOn([NoCall EXCEPT !.file = root], Walk(root), 1,
                                    o.calls)

\* one turn of the loop of waitFn on the resource file at place last.arg of
\* the second walk: the budget check, the fetch, the break on not-found and the
\* next entries of the walk, or the counter and the sleep
DeleteResourcesAtPathWait ==
    /\ pc = "waiting"
    /\ IF BudgetExhausted(poll.counter, client)
       THEN /\ PollReturns(ErrDeletionTimeout, poll)
            /\ UNCHANGED calls
       ELSE \E fault \in Faults :
            \E r \in {GetResourceFromYamlAt(Walk(last.file)[last.arg])} :
            \E g \in {RemoteGet(remote, r.gvr, GetNamespace(r.resource),
                                GetName(r.resource), fault)} :
            \E call \in {Call("get", r.gvr, GetNamespace(r.resource),
                              GetName(r.resource), <<>>, g.err)} :
            IF IsNotFound(g.err)
            THEN WaitMovesOn(last, Walk(last.file), last.arg + 1,
                             Append(calls, call))
            ELSE /\ PollSleeps([poll EXCEPT !.fetches = @ + 1, !.answer = g.err])
                 /\ calls' = Append(calls, call)
    /\ UNCHANGED <<remote, client, turn, before>>

\* while waitFn sleeps the remote system goes on: a resource of the tree that
\* another writer owns comes back
TreeResourceAppears ==
    /\ pc = "waiting"
    /\ poll.sleeps > 0
    /\ \E n \in TreeResources :
       \E a \in {RemoteCreate(remote, someResource, nsA, TreeDocument(n), ErrNil)} :
          /\ a.err = ErrNil
          /\ remote' = a.store
    /\ UNCHANGED <<client, last, turn, before, calls, pc, poll>>

\* while waitFn sleeps the remote system goes on: a resource of the tree goes
TreeResourceDisappears ==
    /\ pc = "waiting"
    /\ poll.sleeps > 0
    /\ \E n \in TreeResources :
       \E a \in {RemoteDelete(remote, someResource, nsA, <<n>>, ErrNil)} :
          /\ a.err = ErrNil
          /\ remote' = a.store
    /\ UNCHANGED <<client, last, turn, before, calls, pc, poll>>

NextDeletePath ==
    \/ DeleteResourcesAtPathStart
    \/ DeleteResourcesAtPathWait
    \/ TreeResourceAppears
    \/ TreeResourceDisappears

\* DeleteResourcesAtPath against a remote system that changes while it waits
SpecDeletePath == InitDeletePath /\ [][NextDeletePath]_vars

----------------------------------------------------------------------------
(* A call and the poll that follows it.                                    *)

\* the key chains the field update is called with, in the form a selector
\* takes as well
FollowUpKeys == {specReplicas, Tail(labelsKey)}

\* the selector <key>=<value>
FieldSelector(key, value) == key \o <<"=">> \o value

FollowUpSelectors == {FieldSelector(k, v) : k \in FollowUpKeys, v \in FieldValues}

\* the remote holds the resource of resource-without-namespace.yaml in the
\* namespace of its document, or nothing
InitFollowUp ==
    /\ remote \in {EmptyStore,
                   StoreOf("noNs", LiveDocument("noNs", kSpec, SpecWith(StrV(<<"3">>))))}
    /\ client = [NewClient EXCEPT !.WaiterTries = 2]
    /\ Idle

\* ClientSet.ResourceOperation and ClientSet.ResourceOperationInNamespace with
\* resource-without-namespace.yaml
OperationOfOne ==
    /\ pc = "idle"
    /\ \E operation \in {operationCreate, operationDelete}, ns \in Namespaces :
        \E o \in {ResourceOperationInNamespace(client, remote, operation, "noNs", ns,
                                               ErrNil, ErrNil)} :
            Returned(IF ns = nsNone THEN "ResourceOperation"
                     ELSE "ResourceOperationInNamespace", operation, ns, "noNs", o)

UpdateFieldOfOne == UpdateResourceWithFieldCalled({"noNs"}, FollowUpKeys)
ResourceShouldBeOfOne == ResourceShouldBeCalled({"noNs"})
ResourceShouldConvergeToSelectorOfOne ==
    ResourceShouldConvergeToSelectorCalled({"noNs"}, FollowUpSelectors)
ResourceConditionShouldBeOfOne == ResourceConditionShouldBeCalled({"noNs"})

NextFollowUp ==
    \/ OperationOfOne
    \/ UpdateFieldOfOne
    \/ ResourceShouldBeOfOne
    \/ ResourceShouldBeAttempt
    \/ ResourceShouldConvergeToSelectorOfOne
    \/ ResourceShouldConvergeToSelectorAttempt
    \/ ResourceConditionShouldBeOfOne
    \/ ResourceConditionShouldBeAttempt

\* operations with a namespace override, field updates and the polls, all on
\* the one document that embeds no namespace
SpecFollowUp == InitFollowUp /\ [][NextFollowUp]_vars

----------------------------------------------------------------------------
(* Entry points on files that resolve and on files that do not.            *)

\* the remote holds the resource of resource-without-namespace.yaml, or nothing
InitResolve ==
    /\ remote \in {EmptyStore,
                   StoreOf("noNs", LiveDocument("noNs", kSpec, SpecWith(StrV(<<"3">>))))}
    /\ client = [NewClient EXCEPT !.WaiterTries = 1]
    /\ Idle

SingleFiles == {"noNs"} \cup UnresolvedFiles
BatchFiles  == UnresolvedFiles

\* ClientSet.ResourceOperation and ClientSet.ResourceOperationInNamespace
ResourceOperationCalled ==
    /\ pc = "idle"
    /\ \E operation \in OperationTokens, ns \in Namespaces, file \in SingleFiles :
        \E o \in {ResourceOperationInNamespace(client, remote, operation, file, ns,
                                               ErrNil, ErrNil)} :
            Returned(IF ns = nsNone THEN "ResourceOperation"
                     ELSE "ResourceOperationInNamespace", operation, ns, file, o)

\* ClientSet.MultiResourceOperation and ClientSet.MultiResourceOperationInNamespace
MultiResourceOperationCalled ==
    /\ pc = "idle"
    /\ \E operation \in MultiOperationTokens, ns \in Namespaces, path \in BatchFiles :
       \E refused \in 0..Len(GetMultipleResourcesFromYaml(path)) :
       \E o \in {MultiOutcome(client, remote, operation, ns, path, refused)} :
            Returned(IF ns = nsNone THEN "MultiResourceOperation"
                     ELSE "MultiResourceOperationInNamespace", operation, ns, path, o)

ResourceShouldBeAnyFile == ResourceShouldBeCalled(SingleFiles)
ResourceShouldConvergeToSelectorAnyFile ==
    ResourceShouldConvergeToSelectorCalled(SingleFiles, Selectors)
ResourceConditionShouldBeAnyFile == ResourceConditionShouldBeCalled(SingleFiles)

NextResolve ==
    \/ ResourceOperationCalled
    \/ MultiResourceOperationCalled
    \/ ResourceShouldBeAnyFile
    \/ ResourceShouldBeAttempt
    \/ ResourceShouldConvergeToSelectorAnyFile
    \/ ResourceShouldConvergeToSelectorAttempt
    \/ ResourceConditionShouldBeAnyFile
    \/ ResourceConditionShouldBeAttempt

\* the operations and the pollers, called with files of both kinds
SpecResolve == InitResolve /\ [][NextResolve]_vars

----------------------------------------------------------------------------
(* Properties of the dispatcher.                                           *)

Dispatchers == {"ClientSet.unstructuredResourceOperation",
                "unstructured.unstructuredResourceOperation"}

IsDispatch == last.fn \in Dispatchers

\* the remote refused no request of the log for a reason of its own
NoFault(log) == \A i \in DOMAIN log : log[i].err # "Forbidden" /\ log[i].err # "Conflict"

\* this step is a create dispatch that follows a create dispatch of the same
\* resource with the same namespace override
SecondCreate ==
    /\ turn' # turn
    /\ last.fn \in Dispatchers /\ last'.fn \in Dispatchers
    /\ last.operation \in {"create", "submit"} /\ last'.operation \in {"create", "submit"}
    /\ last'.ns = last.ns /\ last'.file = last.file

\* C1 as stated: for every resource and namespace, the second of two
\* consecutive create dispatches returns no error and leaves the remote resource
\* set as the first left it (remote failures of the permission-denial kind set
\* aside)
C1_SecondCreateNeverFails ==
    [][SecondCreate /\ NoFault(calls) /\ NoFault(calls')
        => last'.err = "nil" /\ remote' = remote]_vars

\* C1, amended: a create (or submit) dispatch that the remote answers with
\* already-exists returns no error and leaves the remote resource set unchanged;
\* the second of two consecutive create dispatches of the same resource and
\* namespace returns no error and changes nothing whenever the first returned
\* no error and the remote does not refuse the second for a reason of its own
C1_CreateExistingSucceeds ==
    /\ [](IsDispatch /\ last.operation \in {"create", "submit"}
            /\ calls # <<>> /\ calls[1].err = "AlreadyExists"
          => last.err = "nil" /\ remote = before)
    /\ [][SecondCreate /\ last.err = "nil" /\ NoFault(calls')
            => last'.err = "nil" /\ remote' = remote]_vars

\* C1 witness: a create dispatch met an existing resource and returned no error
C1_Witness ==
    /\ IsDispatch /\ last.operation \in {"create", "submit"}
    /\ Len(calls) = 1 /\ calls[1].verb = "create" /\ calls[1].err = "AlreadyExists"
    /\ last.err = "nil" /\ remote = before /\ DOMAIN remote # {}

\* this step is a delete dispatch that follows a delete dispatch of the same
\* resource with the same namespace override
SecondDelete ==
    /\ turn' # turn
    /\ last.fn \in Dispatchers /\ last'.fn \in Dispatchers
    /\ last.operation = "delete" /\ last'.operation = "delete"
    /\ last'.ns = last.ns /\ last'.file = last.file

\* C2: a delete dispatch that the remote answers with not-found returns no
\* error (and changes nothing), in every reachable state; a delete that follows
\* a delete of the same resource returns no error unless the remote refuses it
\* for a reason of its own
C2_DeleteAbsentSucceeds ==
    /\ [](IsDispatch /\ last.operation = "delete"
            /\ calls # <<>> /\ calls[1].err = "NotFound"
          => last.err = "nil" /\ remote = before)
    /\ [][SecondDelete /\ NoFault(calls') => last'.err = "nil"]_vars

\* C2 witness: a delete dispatch of an absent resource returned no error
C2_Witness ==
    /\ IsDispatch /\ last.operation = "delete"
    /\ Len(calls) = 1 /\ calls[1].verb = "delete" /\ calls[1].err = "NotFound"
    /\ last.err = "nil"

\* the key a dispatch addresses by the namespace rule of the dispatcher
AddressedNamespace ==
    IF last.ns # <<>> THEN last.ns ELSE GetNamespace(FileDocuments[last.file])

AddressedKey == <<someResource, AddressedNamespace, GetName(FileDocuments[last.file])>>

\* C3: an update dispatch whose live fetch fails returns the fetch error, issues
\* the get and nothing else, and leaves the remote resource set unchanged; an
\* update of an absent resource fails and creates nothing
C3_UpdateFetchFailure ==
    /\ (IsDispatch /\ last.operation = "update" /\ calls # <<>> /\ calls[1].err # "nil"
        => /\ last.err = calls[1].err
           /\ Len(calls) = 1 /\ calls[1].verb = "get"
           /\ remote = before)
    /\ (IsDispatch /\ last.operation = "update" /\ AddressedKey \notin DOMAIN before
        => /\ last.err # "nil"
           /\ \A i \in DOMAIN calls : calls[i].verb = "get"
           /\ remote = before)

\* C3 witness: an update dispatch of an absent resource returned not-found
C3_Witness ==
    /\ IsDispatch /\ last.operation = "update"
    /\ AddressedKey \notin DOMAIN before
    /\ Len(calls) = 1 /\ calls[1].err = "NotFound" /\ last.err = "NotFound"

SupportedTokens == {"create", "submit", "update", "delete"}

\* C4 as stated: a dispatch with an unsupported token always returns the
\* unsupported-operation error and performs no remote call, in every client state
C4_UnsupportedAlways ==
    IsDispatch /\ last.operation \notin SupportedTokens
    => last.err = "unsupported operation" /\ calls = <<>> /\ remote = before

\* C4, amended: a dispatch with an unsupported token performs no remote call and
\* returns an error: the unsupported-operation error, except that the function
\* of package unstructured returns the validation error of its nil dynamic
\* client first
C4_UnsupportedNoCall ==
    IsDispatch /\ last.operation \notin SupportedTokens
    => /\ calls = <<>> /\ remote = before
       /\ last.err = IF last.fn = "unstructured.unstructuredResourceOperation"
                        /\ ~client.DynamicInterface
                     THEN "interface is nil"
                     ELSE "unsupported operation"

\* C4 witness: an unsupported token was dispatched over existing resources
C4_Witness ==
    /\ IsDispatch /\ last.operation = "patch"
    /\ last.err = "unsupported operation" /\ calls = <<>>
    /\ DOMAIN remote # {}

\* C5: every remote call of a dispatch addresses the override when it is not
\* empty and the namespace embedded in the document otherwise
C5_NamespaceRule ==
    IsDispatch =>
        \A i \in DOMAIN calls :
            /\ calls[i].ns = (IF last.ns # <<>> THEN last.ns
                              ELSE GetNamespace(FileDocuments[last.file]))
            /\ calls[i].name = GetName(FileDocuments[last.file])

\* C5 witness: both calls of an update used the override, not the namespace the
\* document embeds
C5_Witness ==
    /\ IsDispatch /\ last.operation = "update" /\ Len(calls) = 2
    /\ last.ns = nsB /\ last.file = "withNs"
    /\ calls[1].ns = nsB /\ calls[2].ns = nsB

----------------------------------------------------------------------------
(* Properties of the existence poller.                                     *)

\* the effective attempt budget of the session
EffectiveTries == IF client.WaiterTries > 0 THEN client.WaiterTries ELSE 40

ShouldBeReturned == last.fn = "ResourceShouldBe" /\ pc = "idle"

\* C6: an existence poll whose target state is never observed returns the
\* timeout error after exactly N fetches; no poll fetches more than N times, and
\* a timeout is returned only after N fetches none of which showed the target
C6_TimeoutAfterNFetches ==
    /\ last.fn = "ResourceShouldBe" => poll.fetches <= EffectiveTries
    /\ ShouldBeReturned /\ last.err = "waiter timed out"
        => poll.fetches = EffectiveTries /\ poll.observed = 0
    /\ ShouldBeReturned /\ poll.observed = 0 /\ poll.answer \in {"nil", "NotFound"}
        => last.err = "waiter timed out" /\ poll.fetches = EffectiveTries

\* C6 witness: a poll for "deleted" of a resource that stayed timed out after
\* its three configured attempts
C6_Witness ==
    /\ ShouldBeReturned /\ last.arg = "deleted" /\ last.err = "waiter timed out"
    /\ client.WaiterTries = 3 /\ poll.fetches = 3 /\ poll.observed = 0

\* C7: when the first fetch of a poll for "deleted" answers not-found the poll
\* returns success at once: one fetch, no sleep
C7_DeletedAtFirstFetch ==
    last.fn = "ResourceShouldBe" /\ last.arg = "deleted"
        /\ poll.fetches = 1 /\ poll.answer = "NotFound"
    => pc = "idle" /\ last.err = "nil" /\ poll.sleeps = 0 /\ poll.counter = 0

\* C7 witness: a poll for "deleted" returned after one not-found fetch
C7_Witness ==
    /\ ShouldBeReturned /\ last.arg = "deleted" /\ last.err = "nil"
    /\ poll.fetches = 1 /\ poll.answer = "NotFound" /\ poll.sleeps = 0

----------------------------------------------------------------------------
(* Properties of the field-convergence poller.                             *)

\* the document the remote system holds for the polled resource
PolledDocument == remote[PolledKey]

\* this step is a fetch of the running poll that the remote answers with the document
FetchesDocument ==
    /\ pc = "polling"
    /\ poll'.fetches = poll.fetches + 1
    /\ poll'.answer = "nil"
    /\ PolledKey \in DOMAIN remote

\* C8: a field-convergence poll with selector "spec.replicas=3" succeeds at the
\* fetch of a document whose spec.replicas is 3, stored as the string "3" or as
\* the number 3
C8_ReplicasStringOrNumber ==
    [][ (/\ last.fn = "ResourceShouldConvergeToSelector"
         /\ last.arg = specReplicas \o <<"=","3">>
         /\ FetchesDocument
         /\ PolledDocument.m["spec"] \in {MapV("replicas" :> StrV(<<"3">>)),
                                          MapV("replicas" :> IntV(3))})
        => (pc' = "idle" /\ last'.err = "nil") ]_vars

CountOf(s, c) == Cardinality({i \in 1..Len(s) : s[i] = c})

\* the text of a selector before its first "="
KeyOf(selector) ==
    IF CountOf(selector, "=") = 0 THEN selector
    ELSE SubSeq(selector, 1,
                (CHOOSE i \in 1..Len(selector) :
                    selector[i] = "=" /\ \A j \in 1..(i - 1) : selector[j] # "=") - 1)

Malformed(selector) == CountOf(selector, "=") # 1 \/ KeyOf(selector) = <<>>

\* C9: a selector that does not contain exactly one "=", or whose key is empty,
\* is rejected with the format error at once: the file is not resolved, nothing
\* is fetched, the poll does not start
C9_MalformedSelectorRejected ==
    last.fn = "ResourceShouldConvergeToSelector" /\ Malformed(last.arg)
    => /\ pc = "idle"
       /\ last.err = "selector format"
       /\ last.resource = NilV
       /\ poll.fetches = 0

----------------------------------------------------------------------------
(* Properties of the condition-match poller.                               *)

\* C10: the requested status is capitalized before it is compared: a poll for
\* type T and status "true", in any letter case, succeeds at its first fetch
\* when the fetched document's status.conditions has an entry
\* {type: T, status: "True"}
C10_StatusNormalized ==
    [][ (/\ last.fn = "ResourceConditionShouldBe"
         /\ EqualFold(last.arg.status, <<"t","r","u","e">>)
         /\ poll.fetches = 0
         /\ FetchesDocument
         /\ "conditions" \in DOMAIN PolledDocument.m["status"].m
         /\ PolledDocument.m["status"].m["conditions"].t = "slice"
         /\ \E n \in DOMAIN PolledDocument.m["status"].m["conditions"].l :
                PolledDocument.m["status"].m["conditions"].l[n]
                    = MapV("type" :> StrV(last.arg.cType)
                           @@ "status" :> StrV(<<"T","r","u","e">>)))
        => (pc' = "idle" /\ last'.err = "nil") ]_vars

\* C11: an entry of status.conditions that is not a map, lacks a type or a status,
\* or carries a non-string type or status is skipped: a condition-match poll
\* that fetched a document ends only with success or with the timeout, never
\* with another error or a crash
C11_MalformedEntriesSkipped ==
    last.fn = "ResourceConditionShouldBe" /\ pc = "idle" /\ poll.fetches > 0
        /\ poll.answer = "nil"
    => last.err \in {"nil", "waiter timed out"}

----------------------------------------------------------------------------
(* Properties the three pollers share.                                     *)

Pollers == {"ResourceShouldBe", "ResourceShouldConvergeToSelector",
            "ResourceConditionShouldBe"}

\* the poll returned err right after its last fetch: it slept after every
\* earlier fetch and not after this one
EndedAtFetch(err) ==
    pc = "idle" /\ last.err = err /\ poll.sleeps = poll.fetches - 1

\* C12: a fetch error other than not-found ends any of the three polls at that
\* attempt with that error; a not-found fetch ends the field-convergence and the
\* condition-match poll with that error at once; in the existence poll
\* not-found is never the error returned, and for target "created" the poll
\* sleeps and goes on (until its budget ends)
C12_FetchErrors ==
    /\ last.fn \in Pollers /\ poll.fetches > 0 /\ poll.answer \notin {"nil", "NotFound"}
        => EndedAtFetch(poll.answer)
    /\ last.fn \in {"ResourceShouldConvergeToSelector", "ResourceConditionShouldBe"}
            /\ poll.fetches > 0 /\ poll.answer = "NotFound"
        => EndedAtFetch("NotFound")
    /\ last.fn = "ResourceShouldBe" => last.err # "NotFound"
    /\ last.fn = "ResourceShouldBe" /\ last.arg = "created"
            /\ poll.fetches > 0 /\ poll.answer = "NotFound"
        => \/ pc = "polling" /\ poll.sleeps = poll.fetches
           \/ pc = "idle" /\ last.err = "waiter timed out" /\ poll.sleeps = poll.fetches

\* C12 witness: an existence poll for "created" went on after a not-found fetch
\* and was then ended by a refused fetch
C12_Witness ==
    /\ last.fn = "ResourceShouldBe" /\ last.arg = "created"
    /\ poll.fetches = 2 /\ poll.sleeps = 1 /\ poll.answer = "Forbidden"
    /\ pc = "idle" /\ last.err = "Forbidden"

----------------------------------------------------------------------------
(* Properties of the batch operations.                                     *)

IsMulti == last.fn \in {"MultiResourceOperation", "MultiResourceOperationInNamespace"}

\* the resolved sequence the last batch operation was given
Elements == MultiDocuments[last.file]

\* the first remote call made for each element: the only one of a create or a
\* delete, the get of an update
FirstCalls == SelectSeq(calls, LAMBDA c : c.verb # "update")

\* the remote answered the call with success, or with the error its operation absorbs
WentWell(c) ==
    \/ c.err = "nil"
    \/ c.verb = "create" /\ c.err = "AlreadyExists"
    \/ c.verb = "delete" /\ c.err = "NotFound"

\* the effect of a successful call is in the remote system
StaysApplied(c) ==
    CASE c.verb = "create" -> <<c.gvr, c.ns, c.name>> \in DOMAIN remote
      [] c.verb = "delete" -> <<c.gvr, c.ns, c.name>> \notin DOMAIN remote
      [] c.verb = "update" ->
            /\ <<c.gvr, c.ns, c.name>> \in DOMAIN remote
            /\ GetResourceVersion(remote[<<c.gvr, c.ns, c.name>>]) = NextRV(c.rv)
      [] OTHER -> TRUE

\* C13: a batch operation applies the operation to the elements in sequence
\* order and stops at the first error: the calls address a prefix of the
\* sequence in order, every call but the last went well, the error returned is
\* that of the last call (the failing element's), the elements after it got no
\* call, and what the earlier elements did stays applied
C13_BatchFailFast ==
    IsMulti =>
        /\ Len(FirstCalls) <= Len(Elements)
        /\ \A i \in 1..Len(FirstCalls) :
                FirstCalls[i].name = GetName(Elements[i].resource)
        /\ \A i \in 1..(Len(calls) - 1) : WentWell(calls[i])
        /\ last.err # "nil" =>
                \/ calls = <<>> /\ last.err = "unsupported operation"
                \/ calls # <<>> /\ calls[Len(calls)].err = last.err
        /\ last.err = "nil" =>
                /\ Len(FirstCalls) = Len(Elements)
                /\ \A i \in DOMAIN calls : WentWell(calls[i])
        /\ \A i \in DOMAIN calls : calls[i].err = "nil" => StaysApplied(calls[i])

\* C13 witness: a batch create of three elements failed at the second: the
\* first stays created, the third got no call
C13_Witness ==
    /\ IsMulti /\ last.operation = "create" /\ last.file = "three"
    /\ Len(calls) = 2 /\ calls[1].err = "nil" /\ calls[2].err = "Forbidden"
    /\ last.err = "Forbidden"
    /\ <<someResource, last.ns, <<"r">>>> \in DOMAIN remote
    /\ <<someResource, last.ns, <<"t">>>> \notin DOMAIN remote

----------------------------------------------------------------------------
(* Properties of the result-checking wrapper.                              *)

IsWithResult == last.fn = "ResourceOperationWithResultInNamespace"

\* the operation the wrapper ran returned an error: the token is not supported,
\* or the remote answered its last call with an error the operation does not absorb
UnderlyingFailed ==
    \/ last.operation \notin SupportedTokens
    \/ calls # <<>> /\ ~WentWell(calls[Len(calls)])

\* the operation was run once: at most one request, or the get and the update
\* of one update
RanOnce ==
    /\ last.operation \in {"create", "delete"} => Len(calls) = 1
    /\ last.operation = "update" =>
            /\ Len(calls) \in {1, 2}
            /\ calls[1].verb = "get"
            /\ Len(calls) = 2 => calls[2].verb = "update"
    /\ last.operation \notin SupportedTokens => calls = <<>>

AssertionErrors == {"unexpected error", "expected error, received none"}

\* C14 as stated: the wrapper returns nil exactly when the operation failed and
\* expectedResult is "fail", or succeeded and expectedResult is anything else
C14_ResultExactFail ==
    IsWithResult =>
        /\ last.err = "nil" <=> (UnderlyingFailed <=> last.arg = <<"f","a","i","l">>)
        /\ last.err # "nil" => last.err \in AssertionErrors
        /\ RanOnce

\* C14, amended: the wrapper returns nil exactly when the operation failed and
\* expectedResult is "fail" in any letter case, or succeeded and
\* expectedResult is anything else; otherwise it returns an assertion error;
\* the operation is run once
C14_ResultMatchesExpectation ==
    IsWithResult =>
        /\ last.err = "nil"
            <=> (UnderlyingFailed <=> EqualFold(last.arg, <<"f","a","i","l">>))
        /\ last.err # "nil" => last.err \in AssertionErrors
        /\ UnderlyingFailed /\ ~EqualFold(last.arg, <<"f","a","i","l">>)
            => last.err = "unexpected error"
        /\ ~UnderlyingFailed /\ EqualFold(last.arg, <<"f","a","i","l">>)
            => last.err = "expected error, received none"
        /\ RanOnce

\* C14 witness: a delete expected to fail succeeded on an existing resource, and
\* the wrapper reported the missing error
C14_Witness ==
    /\ IsWithResult /\ last.operation = "delete" /\ last.arg = <<"f","a","i","l">>
    /\ Len(calls) = 1 /\ calls[1].err = "nil"
    /\ last.err = "expected error, received none"
    /\ remote # before

----------------------------------------------------------------------------
(* Create, update and delete in sequence.                                  *)

\* this step is a dispatch of next on the file and with the override of the
\* dispatch of first before it
Follows(first, next) ==
    /\ turn' # turn
    /\ last.fn \in Dispatchers /\ last'.fn \in Dispatchers
    /\ last.operation = first /\ last'.operation = next
    /\ last'.file = last.file /\ last'.ns = last.ns

\* C15: for a document with no embedded namespace and a namespace ns, a create
\* with override ns followed by a delete with override ns succeeds both times
\* (the remote refusing neither for a reason of its own); the resource is
\* present in ns between the two and absent from ns after the second
C15_CreateThenDelete ==
    [][ (/\ Follows("create", "delete")
         /\ GetNamespace(FileDocuments[last.file]) = <<>>
         /\ last.ns # <<>>
         /\ NoFault(calls) /\ NoFault(calls'))
        => /\ last.err = "nil"
           /\ <<someResource, last.ns, GetName(FileDocuments[last.file])>> \in DOMAIN remote
           /\ last'.err = "nil"
           /\ <<someResource, last.ns, GetName(FileDocuments[last.file])>>
                \notin DOMAIN remote' ]_vars

\* C15 witness: the document without a namespace was created in namespace b and
\* then deleted from it
C15_Witness ==
    /\ IsDispatch /\ last.operation = "delete" /\ last.file = "noNs" /\ last.ns = <<"b">>
    /\ last.err = "nil" /\ Len(calls) = 1 /\ calls[1].err = "nil"
    /\ <<someResource, <<"b">>, <<"r">>>> \in DOMAIN before
    /\ <<someResource, <<"b">>, <<"r">>>> \notin DOMAIN remote

\* C17: a create with a namespace override, for a document that embeds another
\* namespace, returns an error and creates nothing, in either namespace
C17_CreateNamespaceMismatch ==
    IsDispatch /\ last.operation \in {"create", "submit"} /\ client.DynamicInterface
        /\ last.ns # <<>>
        /\ GetNamespace(FileDocuments[last.file]) # <<>>
        /\ GetNamespace(FileDocuments[last.file]) # last.ns
    => /\ last.err # "nil"
       /\ remote = before

\* C17 witness: the document that embeds namespace a was dispatched to
\* namespace b; nothing exists in a or in b
C17_Witness ==
    /\ IsDispatch /\ last.operation = "create" /\ last.file = "withNs" /\ last.ns = <<"b">>
    /\ last.err = "BadRequest"
    /\ Len(calls) = 1 /\ calls[1].ns = <<"b">>
    /\ <<someResource, <<"a">>, <<"r">>>> \notin DOMAIN remote
    /\ <<someResource, <<"b">>, <<"r">>>> \notin DOMAIN remote

\* C16: on an empty remote system, MultiResourceOperationInNamespace("create",
\* path, "test-ns") for a path that resolves to two documents without an
\* embedded namespace issues exactly two create calls, both to test-ns, and
\* leaves exactly two resources, both in test-ns (the remote refusing nothing)
C16_TwoCreatedInTestNs ==
    last.fn = "MultiResourceOperationInNamespace" /\ last.operation = "create"
        /\ last.file = "two" /\ last.ns = <<"t","e","s","t","-","n","s">>
        /\ before = EmptyStore /\ NoFault(calls)
    => /\ last.err = "nil"
       /\ Len(calls) = 2
       /\ \A i \in DOMAIN calls :
            calls[i].verb = "create" /\ calls[i].ns = <<"t","e","s","t","-","n","s">>
       /\ Cardinality(DOMAIN remote) = 2
       /\ \A k \in DOMAIN remote :
            /\ k[2] = <<"t","e","s","t","-","n","s">>
            /\ GetNamespace(remote[k]) = <<"t","e","s","t","-","n","s">>

\* C16 witness: the two documents were created in test-ns on the empty remote
C16_Witness ==
    /\ last.fn = "MultiResourceOperationInNamespace" /\ last.operation = "create"
    /\ last.file = "two" /\ before = EmptyStore /\ last.err = "nil"
    /\ DOMAIN remote = {<<someResource, testNs, <<"r">>>>, <<someResource, testNs, <<"s">>>>}

\* the two files hold documents of one object: the same name and the same
\* embedded namespace
SameObject(f, g) ==
    /\ GetName(FileDocuments[f]) = GetName(FileDocuments[g])
    /\ GetNamespace(FileDocuments[f]) = GetNamespace(FileDocuments[g])

\* the live object holds the document: its name and every subtree but metadata
HoldsDocument(live, doc) ==
    /\ GetName(live) = GetName(doc)
    /\ \A k \in DOMAIN doc.m \ {"metadata"} : k \in DOMAIN live.m /\ live.m[k] = doc.m[k]

\* C18: after a successful create of a resource in a namespace, an update
\* dispatched for a document of the same object in that namespace succeeds and
\* the live resource then holds the updated document; a resource leaves the
\* remote system only by a delete dispatched for it, and that delete succeeds
\* (the remote refusing nothing for a reason of its own)
C18_CreateUpdateDelete ==
    /\ [][ (/\ turn' # turn
            /\ last.fn \in Dispatchers /\ last'.fn \in Dispatchers
            /\ last.operation = "create" /\ last.err = "nil"
            /\ last'.operation = "update"
            /\ last'.ns = last.ns /\ SameObject(last.file, last'.file)
            /\ NoFault(calls'))
           => /\ last'.err = "nil"
              /\ AddressedKey \in DOMAIN remote'
              /\ HoldsDocument(remote'[AddressedKey], FileDocuments[last'.file]) ]_vars
    /\ [][ \A k \in DOMAIN remote :
            k \notin DOMAIN remote'
            => /\ last'.operation = "delete"
               /\ \E i \in DOMAIN calls' :
                    /\ calls'[i].verb = "delete" /\ calls'[i].err = "nil"
                    /\ <<calls'[i].gvr, calls'[i].ns, calls'[i].name>> = k ]_vars
    /\ [][ (/\ turn' # turn
            /\ last'.fn \in Dispatchers /\ last'.operation = "delete"
            /\ NoFault(calls'))
           => /\ last'.err = "nil"
              /\ \A i \in DOMAIN calls' :
                    <<calls'[i].gvr, calls'[i].ns, calls'[i].name>> \notin DOMAIN remote' ]_vars

\* C18 witness: the resource created from resource-without-namespace.yaml in
\* namespace b holds the document of the update file after the update
C18_Witness ==
    /\ IsDispatch /\ last.operation = "update" /\ last.file = "noNsUpdate"
    /\ last.ns = <<"b">> /\ last.err = "nil"
    /\ <<someResource, <<"b">>, <<"r">>>> \in DOMAIN before
    /\ before[<<someResource, <<"b">>, <<"r">>>>].m["spec"] = MapV("replicas" :> StrV(<<"3">>))
    /\ remote[<<someResource, <<"b">>, <<"r">>>>].m["spec"] = MapV("replicas" :> StrV(<<"4">>))

IsField == last.fn = "UpdateResourceWithField"

\* the resource the file of the last call names, as the remote keys it
FieldKey ==
    Key(someResource, GetNamespace(FileDocuments[last.file]),
        GetName(FileDocuments[last.file]))

\* the path the key chain of the last call names
FieldPath == KeySlice(last.arg[1])

\* a and b are the same tree everywhere but at the path and on the way to it
RECURSIVE AgreeOutside(_, _, _)
AgreeOutside(a, b, path) ==
    IF path = <<>> THEN TRUE
    ELSE /\ a.t = "map" /\ b.t = "map"
         /\ DOMAIN a.m \ {Head(path)} = DOMAIN b.m \ {Head(path)}
         /\ \A k \in DOMAIN a.m \ {Head(path)} : a.m[k] = b.m[k]
         /\ Head(path) \in DOMAIN b.m
         /\ Len(path) > 1 =>
                AgreeOutside(IF Head(path) \in DOMAIN a.m THEN a.m[Head(path)]
                             ELSE MapV(EmptyMap),
                             b.m[Head(path)], Tail(path))

\* what the last call of UpdateResourceWithField did, held being the value the
\* field is to hold afterwards
FieldUpdated(held) ==
    /\ last.err = "nil" =>
        /\ Len(calls) = 2
        /\ calls[1].verb = "get" /\ calls[2].verb = "update"
        /\ FieldKey \in DOMAIN before /\ FieldKey \in DOMAIN remote
        /\ NestedFieldNoCopy(remote[FieldKey], FieldPath)
                = [val |-> held, found |-> TRUE, err |-> FALSE]
        /\ AgreeOutside(before[FieldKey], last.resource, FieldPath)
        /\ calls[2].rv = GetResourceVersion(before[FieldKey])
        /\ AgreeOutside(last.resource, remote[FieldKey], <<"metadata", "resourceVersion">>)
    /\ (calls # <<>> /\ calls[1].err # "nil") =>
        /\ last.err = calls[1].err
        /\ Len(calls) = 1
        /\ remote = before

\* C19 as stated: UpdateResourceWithField fetches the live resource, sets the
\* field at the path to the value it was given and submits that object; on
\* success the live resource holds that value at the path, every other field of
\* the fetched resource and its version token were submitted unchanged; a
\* failed fetch is returned and no update is submitted
C19_FieldHoldsValue ==
    IsField => FieldUpdated(StrV(last.arg[2]))

\* C19: the same, the field holding the value as a 64-bit integer when the
\* value parses as a decimal integer and as the string otherwise
C19_FieldHoldsTypedValue ==
    IsField => FieldUpdated(IF ParseInt(last.arg[2]).ok
                            THEN IntV(ParseInt(last.arg[2]).n)
                            ELSE StrV(last.arg[2]))

\* C19 witness: a label was set to a number on a live resource whose spec is
\* not the one of the file
C19_Witness ==
    /\ IsField /\ last.err = "nil"
    /\ last.arg = <<labelsKey, <<"4">>>>
    /\ before[FieldKey].m["spec"] # FileDocuments[last.file].m["spec"]
    /\ remote[FieldKey].m["metadata"].m["labels"] = MapV("k" :> IntV(4))

\* the entry points of the ClientSet
EntryPoints ==
    {"ClientSet.unstructuredResourceOperation", "MultiResourceOperation",
     "MultiResourceOperationInNamespace", "ResourceOperationWithResultInNamespace",
     "UpdateResourceWithField"} \cup Pollers

\* the last call ended at the validation: it returned the validation error (the
\* result wrapper may wrap it), made no remote call and, unless it was handed
\* the resource, resolved no file
EndedAtValidation ==
    /\ \/ last.err = "interface is nil"
       \/ last.fn = "ResourceOperationWithResultInNamespace" /\ last.err = "unexpected error"
    /\ last.fn \in Pollers => poll.fetches = 0 /\ pc = "idle"
    /\ last.fn \notin Pollers => calls = <<>> /\ remote = before
    /\ last.fn # "ClientSet.unstructuredResourceOperation" => last.resource = NilV

\* C20: when any of the three handles of the client is nil, every entry point
\* (the operations, the batch operations, the result wrapper, the three polls,
\* the field update and the direct dispatch function) returns a validation
\* error before it reads a file and before any remote call
C20_ValidationFirst ==
    (last.fn \in EntryPoints /\ Validate(client) # "nil") => EndedAtValidation

\* the entry points that begin with Client.Validate and return its error
ValidatedEntryPoints ==
    EntryPoints \ {"ClientSet.unstructuredResourceOperation",
                   "ResourceOperationWithResultInNamespace"}

\* the batch operations, the polls and the field update do end at the validation
ValidatedEndAtValidation ==
    (last.fn \in ValidatedEntryPoints /\ Validate(client) # "nil") => EndedAtValidation

----------------------------------------------------------------------------
(* Properties of the retry policy.                                         *)

\* the effective interval of the session, in seconds
EffectiveInterval == IF client.WaiterInterval > 0 THEN client.WaiterInterval ELSE 30

\* C21: the effective attempt count is the configured one when it is greater
\* than 0 and 40 otherwise, the effective interval the configured one when it is
\* greater than 0 and 30 seconds otherwise: no poll fetches more often than the
\* effective count, a poll that times out has fetched exactly that often, which
\* is at least once, and every sleep of a poll lasts the effective interval
C21_EffectivePolicy ==
    last.fn \in Pollers =>
        /\ poll.fetches <= EffectiveTries
        /\ (pc = "idle" /\ last.err = "waiter timed out")
            => poll.fetches = EffectiveTries /\ poll.fetches >= 1
        /\ poll.waited = poll.sleeps * EffectiveInterval

\* C21 witness: a poll of a session configured with -1 attempts and interval 0
\* timed out after 40 fetches, having slept 30 seconds each time
C21_Witness ==
    /\ last.fn \in Pollers /\ pc = "idle" /\ last.err = "waiter timed out"
    /\ client.WaiterTries = -1 /\ client.WaiterInterval = 0
    /\ poll.fetches = 40 /\ poll.sleeps > 0 /\ poll.waited = poll.sleeps * 30

----------------------------------------------------------------------------
(* Properties of one dispatch: its requests and its error.                 *)

\* how many requests of the log carry one of the verbs
CountVerbs(log, verbs) == Cardinality({i \in DOMAIN log : log[i].verb \in verbs})

\* C22: one dispatch call issues at most one mutating request (a create, an
\* update or a delete) and, for update only, exactly one get, which comes first;
\* no request follows a request the remote answered with an error
C22_NoRetry ==
    IsDispatch =>
        /\ CountVerbs(calls, {"create", "update", "delete"}) <= 1
        /\ CountVerbs(calls, {"get"}) = IF last.operation = "update" THEN 1 ELSE 0
        /\ last.operation = "update" => calls[1].verb = "get"
        /\ \A i \in DOMAIN calls : calls[i].err # "nil" => i = Len(calls)

\* C22 witness: an update dispatch whose update request met a version conflict
\* made its one get and its one update and nothing more
C22_Witness ==
    /\ IsDispatch /\ last.operation = "update"
    /\ Len(calls) = 2 /\ calls[1].verb = "get" /\ calls[1].err = "nil"
    /\ calls[2].verb = "update" /\ calls[2].err = "Conflict"

\* the answer to the request is one the dispatch absorbs: already-exists to a
\* create, not-found to a delete
Absorbed(c) ==
    \/ c.verb = "create" /\ c.err = "AlreadyExists"
    \/ c.verb = "delete" /\ c.err = "NotFound"

\* C23: every error the remote answers a request of a dispatch with, the two
\* absorbed ones set apart, is the error the dispatch returns
C23_ErrorsPropagate ==
    IsDispatch =>
        \A i \in DOMAIN calls :
            (calls[i].err # "nil" /\ ~Absorbed(calls[i])) => last.err = calls[i].err

\* C23 witness: a delete dispatch the remote refused returned the refusal and
\* left the resource in place
C23_Witness ==
    /\ IsDispatch /\ last.operation = "delete"
    /\ Len(calls) = 1 /\ calls[1].err = "Forbidden" /\ last.err = "Forbidden"
    /\ AddressedKey \in DOMAIN remote

----------------------------------------------------------------------------
(* Properties of DeleteResourcesAtPath.                                    *)

IsDeletePath == last.fn = "DeleteResourcesAtPath"

\* the resources of the .yaml files of either tree, in the lexical order of
\* the paths of their files: a.yaml, b.yaml, then c.yaml or s/c.yaml
LexicalOrder == <<"a", "b", "c">>

PlaceOf(name) == CHOOSE i \in DOMAIN LexicalOrder : <<LexicalOrder[i]>> = name

Deletes == {i \in DOMAIN calls : calls[i].verb = "delete"}
Fetches == {i \in DOMAIN calls : calls[i].verb = "get"}

\* the first walk ended in an error: a Delete request was answered with one,
\* or a file did not decode
FirstWalkFailed ==
    \/ \E i \in Deletes : calls[i].err # ErrNil
    \/ last.err = ErrDecode

\* C24: DeleteResourcesAtPath runs in two phases.  No Delete request follows a
\* fetch of the second walk, and a fetch is made only after every resource file
\* got its Delete request answered without error.  When the first walk meets
\* an error, a refused or failed Delete or a file that does not decode, the
\* call has returned that error, the failed request is the last one made, the
\* later files got no Delete and no fetch was made.
C24_TwoPhases ==
    IsDeletePath =>
        /\ \A i \in Fetches : \A j \in Deletes : j < i
        /\ Fetches # {} =>
                /\ Cardinality(Deletes) = Len(LexicalOrder)
                /\ \A j \in Deletes : calls[j].err = ErrNil
        /\ FirstWalkFailed =>
                /\ pc = "idle"
                /\ Fetches = {}
                /\ \A j \in Deletes : calls[j].err # ErrNil => j = Len(calls)
                /\ (\E j \in Deletes : calls[j].err # ErrNil) =>
                        last.err = calls[Len(calls)].err
                /\ last.file = "broken" /\ last.err = ErrDecode => Len(calls) = 1

\* the Delete for b.yaml is answered with not-found: the call returned it after
\* two requests, and the resource of s/c.yaml is still there
C24_Witness ==
    /\ IsDeletePath
    /\ last.file = "templates"
    /\ Len(calls) = 2
    /\ calls[1].err = ErrNil
    /\ calls[2].verb = "delete" /\ calls[2].err = ErrNotFound
    /\ last.err = ErrNotFound
    /\ pc = "idle"
    /\ Key(someResource, nsA, <<"c">>) \in DOMAIN remote

----------------------------------------------------------------------------
(* Properties of the update dispatch.                                      *)

\* the version token of the object the remote held when the dispatch was called
TokenBefore == GetResourceVersion(before[AddressedKey])

\* C26: in an update dispatch the first request is the get and the update
\* request, when one is made, follows it and submits the document with the
\* version token of the object that get returned: not the token the file came
\* with, and not the token of an earlier dispatch.
C26_StampedToken ==
    (IsDispatch /\ last.operation = operationUpdate /\ last.err # ErrValidation) =>
        /\ Len(calls) \in {1, 2}
        /\ calls[1].verb = "get"
        /\ Len(calls) = 2 =>
            /\ calls[1].err = ErrNil
            /\ calls[2].verb = "update"
            /\ AddressedKey \in DOMAIN before
            /\ calls[2].rv = TokenBefore
            /\ GetResourceVersion(last.resource) = TokenBefore
            /\ calls[2].err = ErrNil =>
                    GetResourceVersion(remote[AddressedKey]) = NextRV(TokenBefore)

\* an update with the file that carries token 9, of an object an earlier update
\* had brought to token 2: the request carries 2
C26_Witness ==
    /\ IsDispatch
    /\ last.operation = operationUpdate
    /\ last.file \in StaleFiles
    /\ Len(calls) = 2
    /\ calls[2].rv = <<"2">>
    /\ GetResourceVersion(FileDocuments[last.file]) = <<"9">>

----------------------------------------------------------------------------
(* Properties of the loop of the pollers.                                  *)

\* the poll has returned without error
PollSucceeded == pc = "idle" /\ last.err = ErrNil /\ poll.fetches > 0

\* C27: for each of the three pollers, against a remote that changes between
\* the attempts: the fetch at which the remote first shows what the caller
\* waits for is the last one, the poll returns success at it, after one sleep
\* less than it made fetches; and a poll that returns success has seen it at its
\* last fetch.
C27_SuccessAtFirstMatch ==
    last.fn \in Pollers =>
        /\ poll.observed >= 1 =>
                /\ PollSucceeded
                /\ poll.observed = 1
                /\ poll.sleeps = poll.fetches - 1
        /\ PollSucceeded => poll.observed = 1

\* the same for the existence poller alone, whose predicate has no malformed
\* documents to meet
SuccessAtFirstMatch_Existence ==
    last.fn = "ResourceShouldBe" =>
        /\ poll.observed >= 1 =>
                /\ PollSucceeded
                /\ poll.observed = 1
                /\ poll.sleeps = poll.fetches - 1
        /\ PollSucceeded => poll.observed = 1

\* a poll succeeded at its third fetch, after two sleeps
SuccessAtThirdFetch ==
    /\ last.fn \in Pollers
    /\ PollSucceeded
    /\ poll.fetches = 3
    /\ poll.sleeps = 2

\* the poll has returned the timeout error
PollTimedOut == last.fn \in Pollers /\ pc = "idle" /\ last.err = ErrTimeout

\* C28: a poll that ends in timeout with an effective number of attempts N has
\* slept N-1 times: after the N-th fetch that did not satisfy the predicate the
\* timeout is returned without a sleep.
C28_TimeoutSleeps ==
    PollTimedOut => poll.fetches = EffectiveTries /\ poll.sleeps = EffectiveTries - 1

\* what the loops do: the budget check opens the turn, so the N-th fetch is
\* followed by a sleep like every other one and the timeout comes after N sleeps
TimeoutAfterNSleeps ==
    PollTimedOut => poll.fetches = EffectiveTries /\ poll.sleeps = EffectiveTries

----------------------------------------------------------------------------
(* Properties of the predicates of the pollers.                            *)

IsConverge == last.fn = "ResourceShouldConvergeToSelector"

\* the text of a selector after its first "="
ValueOf(selector) ==
    SubSeq(selector, Len(KeyOf(selector)) + 2, Len(selector))

\* the value a document holds at a path of keys, nil when the path is not there
RECURSIVE LeafAt(_, _)
LeafAt(val, keys) ==
    IF keys = <<>> THEN val
    ELSE IF val.t = "map" /\ Head(keys) \in DOMAIN val.m
    THEN LeafAt(val.m[Head(keys)], Tail(keys))
    ELSE NilV

Lower(s) == [i \in 1..Len(s) |-> ToLower(s[i])]

\* the path of the selector as keys of the document
DottedPath(selector) ==
    [i \in 1..Len(Split(KeyOf(selector), ".")) |-> MapKey(Split(KeyOf(selector), ".")[i])]

\* the document shows the value the selector asks for: a string at the dotted
\* path that equals the expected value up to the case of its letters
ShowsValue(doc, selector) ==
    /\ LeafAt(doc, DottedPath(selector)).t = "string"
    /\ Lower(LeafAt(doc, DottedPath(selector)).s) = Lower(ValueOf(selector))

\* C29: at a fetch of a field-convergence poll with a well-formed selector the
\* poll returns success exactly when the fetched document holds, at the dotted
\* path, a string equal to the expected value up to letter case.  Otherwise,
\* the path being absent included, no error is returned: the poll sleeps and
\* goes on, and when its budget is used up it returns the timeout error.
C29_FieldPredicate ==
    [][ (IsConverge /\ ~Malformed(last.arg)) =>
          /\ FetchesDocument =>
                /\ (pc' = "idle" /\ last'.err = ErrNil) <=>
                        ShowsValue(PolledDocument, last.arg)
                /\ ~ShowsValue(PolledDocument, last.arg) =>
                        /\ pc' = "polling"
                        /\ last'.err = "pending"
                        /\ poll'.sleeps = poll.sleeps + 1
          /\ (pc = "polling" /\ poll.counter >= EffectiveTries /\ poll' # poll) =>
                /\ last'.err = ErrTimeout
                /\ pc' = "idle"
                /\ poll'.fetches = poll.fetches ]_vars

\* a poll for metadata.name=R succeeded on the resource named r, whose spec
\* has no replicas
C29_Witness ==
    /\ IsConverge
    /\ last.arg = <<"m","e","t","a","d","a","t","a",".","n","a","m","e","=","R">>
    /\ pc = "idle"
    /\ last.err = ErrNil
    /\ PolledKey \in DOMAIN remote
    /\ LeafAt(PolledDocument, <<"spec", "replicas">>) = NilV
    /\ LeafAt(PolledDocument, <<"metadata", "name">>) = StrV(<<"r">>)

\* a poll for spec.replicas timed out on a document without the field
TimedOutOnAbsentField ==
    /\ IsConverge
    /\ last.arg = specReplicas \o <<"=","3">>
    /\ pc = "idle"
    /\ last.err = ErrTimeout
    /\ poll.answer = ErrNil
    /\ PolledKey \in DOMAIN remote
    /\ LeafAt(PolledDocument, <<"spec", "replicas">>) = NilV

IsCondition == last.fn = "ResourceConditionShouldBe"

\* the entries of status.conditions of the polled document
PolledConditions == PolledDocument.m["status"].m["conditions"].l

\* a word with its first letter in upper case and the others in lower case
Capitalized(s) == [i \in 1..Len(s) |-> IF i = 1 THEN ToUpper(s[i]) ELSE ToLower(s[i])]

\* C30: the status found in the entry is brought to the capitalized form before
\* the comparison: a poll for type T with status "True" or "true" succeeds at
\* the fetch of a document whose only entry is {type: T, status: "true"}.
C30_EntryStatusNormalized ==
    [][ (/\ IsCondition
         /\ last.arg.status \in {<<"T","r","u","e">>, <<"t","r","u","e">>}
         /\ FetchesDocument
         /\ PolledConditions = <<Condition(last.arg.cType, <<"t","r","u","e">>)>>)
        => (pc' = "idle" /\ last'.err = ErrNil) ]_vars

\* what the code does: the requested status is what is brought to the
\* capitalized form, the status of the entry is compared as it is.  At a fetch
\* of a document with well-shaped entries the poll succeeds exactly when an
\* entry of type T carries the capitalized form of the requested status, so
\* {type: T, status: "True"} satisfies "True" and "true", and
\* {type: T, status: "true"} satisfies neither.
RequestedStatusNormalized ==
    [][ (IsCondition /\ FetchesDocument) =>
          ((pc' = "idle" /\ last'.err = ErrNil) <=>
                \E n \in DOMAIN PolledConditions :
                    PolledConditions[n] =
                        Condition(last.arg.cType, Capitalized(last.arg.status))) ]_vars

\* a poll for Ready with "True" timed out on a document whose entry of type
\* Ready has status "true" at every fetch
TimedOutOnLowerStatus ==
    /\ IsCondition
    /\ last.arg.status = <<"T","r","u","e">>
    /\ pc = "idle"
    /\ last.err = ErrTimeout
    /\ poll.fetches >= 2
    /\ poll.observed = poll.fetches
    /\ PolledKey \in DOMAIN remote
    /\ PolledConditions = <<ReadyLower>>

----------------------------------------------------------------------------
(* Properties of the second walk of DeleteResourcesAtPath.                 *)

\* this step is a fetch of waitFn
WaitFetches == pc = "waiting" /\ Len(calls') = Len(calls) + 1

\* the answer to the fetch of this step
WaitAnswer == calls'[Len(calls')].err

\* C31: the wait of DeleteResourcesAtPath for a resource file is the existence
\* poll for "deleted": a fetch error other than not-found is returned at once,
\* not-found ends the wait for the file without error, and a resource that is
\* still there is waited for with a sleep and fetched again.
C31_WaitLikeExistencePoll ==
    [][ WaitFetches =>
          /\ (WaitAnswer # ErrNil /\ ~IsNotFound(WaitAnswer)) =>
                (pc' = "idle" /\ last'.err = WaitAnswer)
          /\ IsNotFound(WaitAnswer) =>
                (last'.err \in {ErrNil, "pending"} /\ poll' = NoPoll)
          /\ WaitAnswer = ErrNil =>
                (pc' = "waiting" /\ poll'.sleeps = poll.sleeps + 1) ]_vars

\* what waitFn does: an error of the fetch other than not-found is passed over
\* like a resource that is still there
WaitPassesOverFetchErrors ==
    [][ WaitFetches =>
          /\ ~IsNotFound(WaitAnswer) =>
                (pc' = "waiting" /\ last' = last /\ poll'.sleeps = poll.sleeps + 1)
          /\ IsNotFound(WaitAnswer) =>
                (last'.err \in {ErrNil, "pending"} /\ poll' = NoPoll) ]_vars

\* the call returned without error although a fetch of its waits was refused
ReturnedAfterRefusedFetch ==
    /\ IsDeletePath
    /\ pc = "idle"
    /\ last.err = ErrNil
    /\ \E i \in Fetches : calls[i].err = ErrForbidden

----------------------------------------------------------------------------
(* The document of a resolved resource.                                    *)

\* the document as the file gave it
ResolvedDocument == FileDocuments[last.file]

\* C32: the document of a resolved resource is as the file gave it after a
\* create, a delete, an unsupported operation and after every turn of every
\* poller.  After an update whose get succeeded it differs from the file's
\* only in the version token, which is the one of the live object; after an
\* update whose get failed it is unchanged.
C32_DocumentFrame ==
    /\ IsDispatch =>
          IF last.operation = operationUpdate /\ last.err # ErrValidation
                /\ calls[1].err = ErrNil
          THEN last.resource = SetResourceVersion(ResolvedDocument, TokenBefore)
          ELSE last.resource = ResolvedDocument
    /\ (last.fn \in Pollers /\ last.resource # NilV) => last.resource = ResolvedDocument

\* an update with the file of token 9 left the document with the token 1 of the
\* live object and nothing else changed
C32_Witness ==
    /\ IsDispatch
    /\ last.operation = operationUpdate
    /\ last.file \in StaleFiles
    /\ last.err = ErrNil
    /\ GetResourceVersion(last.resource) = <<"1">>
    /\ last.resource # ResolvedDocument
    /\ last.resource = SetResourceVersion(ResolvedDocument, <<"1">>)

----------------------------------------------------------------------------
(* Termination of the pollers.                                             *)

\* what a poll may return: success, the timeout, or the error of a fetch or of
\* the read of a field
PollResults == {ErrNil, ErrTimeout, ErrForbidden, ErrNotFound, "field error"}

\* this step is a turn of the loop of a poller
TakesTurn == pc = "polling" /\ (poll' # poll \/ pc' # pc)

\* C33: every poll terminates: whatever the remote does, a poll never makes
\* more than N fetches nor counts beyond N, N being the effective number of
\* attempts, and every turn of its loop either returns success, the timeout or
\* a fatal error, or counts one attempt more; at N attempts it returns.
C33_PollsTerminate ==
    [][ /\ (last'.fn \in Pollers) =>
                (poll'.counter <= EffectiveTries /\ poll'.fetches <= EffectiveTries)
        /\ TakesTurn =>
                \/ pc' = "idle" /\ last'.err \in PollResults
                \/ /\ pc' = "polling"
                   /\ poll.counter < EffectiveTries
                   /\ poll'.counter = poll.counter + 1 ]_vars

\* the same with the crash of the condition poller among the ways a poll ends
TurnsEndOrCount ==
    [][ /\ (last'.fn \in Pollers) =>
                (poll'.counter <= EffectiveTries /\ poll'.fetches <= EffectiveTries)
        /\ TakesTurn =>
                \/ pc' = "idle" /\ last'.err \in PollResults \cup {ErrPanic}
                \/ /\ pc' = "polling"
                   /\ poll.counter < EffectiveTries
                   /\ poll'.counter = poll.counter + 1 ]_vars

\* with the loops going on, a poll that runs comes to an end
PollsEnd == (pc = "polling") ~> (pc = "idle")

\* the entry points that resolve a resource file before anything else
ResolvingEntryPoints ==
    {"ResourceOperation", "ResourceOperationInNamespace", "MultiResourceOperation",
     "MultiResourceOperationInNamespace", "ResourceShouldBe",
     "ResourceShouldConvergeToSelector", "ResourceConditionShouldBe"}

\* the last call was made, with a client and arguments that pass the checks made
\* before the resolution, on a file whose resolution fails
ResolutionFailed ==
    /\ last.fn \in ResolvingEntryPoints
    /\ last.file \in UnresolvedFiles
    /\ last.err # ErrFormat

\* C34: a call of ResourceOperation*, MultiResourceOperation* or a poller on a
\* file whose resolution fails returns the error of the resolution at once: it
\* makes no call on the dynamic client, no fetch and no sleep, leaves the remote
\* system as it was and yields no resource
C34_ResolutionErrorReturned ==
    ResolutionFailed =>
        /\ pc = "idle"
        /\ last.err = ResolveError(last.file)
        /\ last.err # ErrNil
        /\ last.resource = NilV
        /\ IF last.fn \in {"ResourceShouldBe", "ResourceShouldConvergeToSelector",
                           "ResourceConditionShouldBe"}
           THEN poll = NoPoll
           ELSE calls = <<>> /\ remote = before

\* a batch operation returned the error of a missing file and dispatched nothing
\* while the remote held a resource
C34_Witness ==
    /\ ResolutionFailed
    /\ last.fn = "MultiResourceOperationInNamespace"
    /\ last.file = "missing"
    /\ last.err = ErrNoFile
    /\ calls = <<>>
    /\ remote # EmptyStore

\* a poller returned the error of a malformed file without a fetch
PollerReturnedResolutionError ==
    /\ ResolutionFailed
    /\ last.fn = "ResourceShouldConvergeToSelector"
    /\ last.err = ErrMalformed
    /\ poll.fetches = 0


----------------------------------------------------------------------------
(* The entries DeleteResourcesAtPath passes over.                          *)

\* the names the .yaml files of a tree declare
YamlResources(root) ==
    {<<e.holds>> : e \in {x \in Trees[root] : ~x.isDir /\ x.ext = ".yaml"}}

\* C35: in both walks of DeleteResourcesAtPath directories and files whose
\* extension is not ".yaml" are passed over: every Delete and every fetch is
\* for the resource of a .yaml file, a wait is always at a .yaml file, the
\* file n.txt, which does not decode, never makes the call fail, and a call
\* that returns without error has deleted and fetched the resource of every
\* .yaml file of the tree, the one in the subdirectory included.
C35_OnlyYamlFiles ==
    IsDeletePath =>
        /\ \A i \in DOMAIN calls : calls[i].name \in YamlResources(last.file)
        /\ last.file = "templates" => last.err # ErrDecode
        /\ pc = "waiting" =>
                /\ ~Walk(last.file)[last.arg].isDir
                /\ Walk(last.file)[last.arg].ext = ".yaml"
        /\ pc = "idle" /\ last.err = ErrNil =>
                /\ {calls[i].name : i \in Deletes} = YamlResources(last.file)
                /\ {calls[i].name : i \in Fetches} = YamlResources(last.file)

\* a call on the tree with n.txt and the directory s returned without error
\* after three Delete requests and three fetches
C35_Witness ==
    /\ IsDeletePath
    /\ last.file = "templates"
    /\ pc = "idle"
    /\ last.err = ErrNil
    /\ Len(calls) = 6
    /\ calls[3].name = <<"c">> /\ calls[6].name = <<"c">>

\* the call was made while the remote system lacked the resource of one of the
\* files of the trees
CalledOnAbsentResource ==
    /\ IsDeletePath
    /\ last.err # ErrDiscover
    /\ \E n \in TreeResources : Key(someResource, nsA, <<n>>) \notin DOMAIN before

\* C36: the first walk of DeleteResourcesAtPath does not absorb not-found.  A
\* Delete answered with not-found is the last request of the call, which has
\* returned that error without a fetch; so a call made while a resource of the
\* tree is absent, as a second call is once the first one succeeded, never
\* reaches the second walk and never returns without error.
C36_NotFoundReturned ==
    /\ IsDeletePath =>
            \A i \in Deletes : IsNotFound(calls[i].err) =>
                /\ i = Len(calls)
                /\ pc = "idle"
                /\ last.err = ErrNotFound
    /\ CalledOnAbsentResource =>
            /\ pc = "idle"
            /\ last.err \notin {ErrNil, "pending"}
            /\ Fetches = {}

\* a call made after the resources of the tree were all gone returned the
\* not-found of its first Delete
C36_Witness ==
    /\ CalledOnAbsentResource
    /\ before = EmptyStore
    /\ last.file = "templates"
    /\ Len(calls) = 1
    /\ calls[1].verb = "delete" /\ calls[1].name = <<"a">>
    /\ last.err = ErrNotFound

----------------------------------------------------------------------------
(* The budget of the waits of DeleteResourcesAtPath.                       *)

FetchesOf(name) == {i \in Fetches : calls[i].name = name}

\* the resource of the file the second walk is at
WaitedFile == <<Walk(last.file)[last.arg].holds>>

\* C40: in the second walk of DeleteResourcesAtPath every resource file has
\* its own budget of N = getWaiterTries() turns.  The counter of a wait is the
\* number of fetches made for its file, no file is fetched more than N times,
\* so no call makes more than F * N fetches over F files; and a wait that runs
\* out has fetched its file N times without a not-found, the call has
\* returned the timeout error and no later file was fetched.
C40_BudgetPerFile ==
    IsDeletePath =>
        /\ \A n \in TreeResources :
                Cardinality(FetchesOf(<<n>>)) <= getWaiterTries(client)
        /\ Cardinality(Fetches)
                <= Cardinality(YamlResources(last.file)) * getWaiterTries(client)
        /\ pc = "waiting" => poll.counter = Cardinality(FetchesOf(WaitedFile))
        /\ last.err = ErrDeletionTimeout =>
                /\ pc = "idle"
                /\ Cardinality(FetchesOf(WaitedFile)) = getWaiterTries(client)
                /\ \A i \in FetchesOf(WaitedFile) : ~IsNotFound(calls[i].err)
                /\ \A i \in Fetches : PlaceOf(calls[i].name) <= PlaceOf(WaitedFile)

\* with two tries, the wait for a.yaml took both of them and the wait for
\* b.yaml ran out after two more: four fetches, none for s/c.yaml
C40_Witness ==
    /\ IsDeletePath
    /\ last.file = "templates"
    /\ getWaiterTries(client) = 2
    /\ last.err = ErrDeletionTimeout
    /\ WaitedFile = <<"b">>
    /\ Cardinality(FetchesOf(<<"a">>)) = 2
    /\ Cardinality(Fetches) = 4

----------------------------------------------------------------------------
(* ResourceShouldBe with a state it does not know.                         *)

\* ResourceShouldBe was called with a state other than "created" and "deleted"
UnknownStatePolled ==
    /\ last.fn = "ResourceShouldBe"
    /\ last.arg \notin {stateCreated, stateDeleted}

\* C38: ResourceShouldBe does not check its state token.  Called with a state
\* other than "created" and "deleted" it fetches the resource on every turn,
\* never finds the state reached and never returns without error: it returns
\* the timeout error after exactly N = getWaiterTries() fetches, or the error
\* of a fetch that failed with something other than not-found, and no other
\* error.
C38_UnknownStateTimesOut ==
    UnknownStatePolled =>
        /\ last.err \in {"pending", ErrTimeout, ErrForbidden}
        /\ pc = "idle" <=> last.err # "pending"
        /\ poll.fetches = poll.counter + (IF last.err = ErrForbidden THEN 1 ELSE 0)
        /\ last.err = ErrTimeout => poll.fetches = getWaiterTries(client)
        /\ last.err = ErrForbidden =>
                /\ poll.answer = ErrForbidden
                /\ poll.fetches <= getWaiterTries(client)

\* the poll for "ready" timed out after two fetches while the resource was
\* there
C38_Witness ==
    /\ UnknownStatePolled
    /\ last.arg = "ready"
    /\ last.err = ErrTimeout
    /\ getWaiterTries(client) = 2
    /\ poll.fetches = 2
    /\ poll.answer = ErrNil
    /\ remote # EmptyStore

----------------------------------------------------------------------------
(* The namespace the polls and the field update address.                   *)

\* the resource of the file of the last call in the namespace its document
\* embeds, and in the namespace the operations may be given instead
EmbeddedKey ==
    Key(someResource, GetNamespace(FileDocuments[last.file]),
        GetName(FileDocuments[last.file]))

OverrideKey == Key(someResource, nsB, GetName(FileDocuments[last.file]))

\* C37: the three polls and UpdateResourceWithField address the namespace the
\* document embeds, whatever namespace an operation was given before.  The
\* answer to the fetch of a poll is not-found exactly when the remote holds no
\* resource of that name in the embedded namespace; the requests of a field
\* update all go to the embedded namespace and leave a resource of the same
\* name in another namespace as it was; and ResourceShouldBe(file, "created")
\* never sees a resource that exists only in the other namespace: it observes
\* nothing and returns no success.
C37_EmbeddedNamespace ==
    /\ (last.fn \in Pollers /\ poll.fetches > 0 /\ poll.answer # ErrForbidden) =>
            (poll.answer = ErrNotFound <=> EmbeddedKey \notin DOMAIN remote)
    /\ last.fn = "UpdateResourceWithField" =>
            /\ \A i \in DOMAIN calls :
                    calls[i].ns = GetNamespace(FileDocuments[last.file])
            /\ OverrideKey \in DOMAIN before =>
                    /\ OverrideKey \in DOMAIN remote
                    /\ remote[OverrideKey] = before[OverrideKey]
    /\ (/\ last.fn = "ResourceShouldBe"
        /\ last.arg = stateCreated
        /\ EmbeddedKey \notin DOMAIN remote) =>
            /\ last.err \in {"pending", ErrTimeout, ErrForbidden}
            /\ poll.observed = 0

\* after a create in namespace b of the document without a namespace, the
\* poll for "created" timed out on two not-found answers while the resource was
\* there in namespace b
C37_Witness ==
    /\ last.fn = "ResourceShouldBe"
    /\ last.file = "noNs"
    /\ last.arg = stateCreated
    /\ calls # <<>>
    /\ calls[Len(calls)].verb = "create"
    /\ calls[Len(calls)].ns = nsB
    /\ calls[Len(calls)].err = ErrNil
    /\ OverrideKey \in DOMAIN remote
    /\ EmbeddedKey \notin DOMAIN remote
    /\ last.err = ErrTimeout
    /\ poll.fetches = 2
    /\ poll.answer = ErrNotFound

\* a field update found nothing in the embedded namespace while the resource
\* was there in namespace b
FieldUpdateMissedOtherNamespace ==
    /\ last.fn = "UpdateResourceWithField"
    /\ OverrideKey \in DOMAIN remote
    /\ last.err = ErrNotFound

\* the requests of DeleteResourcesAtPath all go to the namespace the documents
\* of the tree embed
DeletePathAddressesEmbedded ==
    IsDeletePath => \A i \in DOMAIN calls : calls[i].ns = nsA

----------------------------------------------------------------------------
(* A field update and the convergence poll that follows it.                *)

\* what the field holds after an update with the value: the number for the two
\* values that are decimal integers, the string for the other
StoredFor(value) ==
    CASE value = <<"4">>      -> IntV(4)
      [] value = <<"-", "4">> -> IntV(0 - 4)
      [] OTHER                -> StrV(value)

\* the key and the value of the selector a convergence poll was called with
PolledField == KeySlice(SelectorSplit(last.arg)[1])
PolledValue == SelectorSplit(last.arg)[2]

\* the last request before the poll was the Update of a field update that
\* succeeded, and the resource holds at the key of the selector what such an
\* update stores for the value of the selector
FollowsFieldUpdate ==
    /\ IsConverge
    /\ Len(calls) = 2
    /\ calls[2].verb = "update" /\ calls[2].err = ErrNil
    /\ EmbeddedKey \in DOMAIN remote
    /\ LeafAt(remote[EmbeddedKey], PolledField) = StoredFor(PolledValue)

\* C39: UpdateResourceWithField stores the value as a number when the value
\* is a decimal integer and as the string otherwise; so the convergence poll
\* for <key>=<value> that follows a successful update with a value that is no
\* integer succeeds at its first fetch, without a sleep, unless that fetch is
\* refused.
C39_TypedFieldAndFollowUp ==
    /\ (last.fn = "UpdateResourceWithField" /\ last.err = ErrNil) =>
            LeafAt(remote[EmbeddedKey], KeySlice(last.arg[1])) = StoredFor(last.arg[2])
    /\ (FollowsFieldUpdate /\ StoredFor(PolledValue).t = "string") =>
            /\ poll.sleeps = 0
            /\ poll.fetches <= 1
            /\ last.err \in {"pending", ErrNil, ErrForbidden}
            /\ poll.fetches = 0 <=> last.err = "pending"
            /\ poll.fetches = 1 /\ poll.answer = ErrNil => last.err = ErrNil

\* the poll for metadata.labels.k=v succeeded at its first fetch after the
\* update that set the label
C39_Witness ==
    /\ FollowsFieldUpdate
    /\ last.arg = FieldSelector(Tail(labelsKey), <<"v">>)
    /\ last.err = ErrNil
    /\ poll.fetches = 1
    /\ poll.sleeps = 0

\* a field was set to the number -4
NumberStored ==
    /\ last.fn = "UpdateResourceWithField"
    /\ last.err = ErrNil
    /\ last.arg[2] = <<"-", "4">>
    /\ LeafAt(remote[EmbeddedKey], KeySlice(last.arg[1])) = IntV(0 - 4)

\* after an update with a decimal integer the poll for <key>=<value> never
\* succeeds: the number is not read as a string
NumberNeverConverges ==
    (FollowsFieldUpdate /\ StoredFor(PolledValue).t = "int64") => last.err # ErrNil

====
